---- MODULE Spec2Model ----
(***************************************************************************)
(* Demo-org generator: the provisioning run (main.py run_generation ->      *)
(* create_org.main -> the creation stages of devrev_objects.py) and the     *)
(* cleanup run (main.py run_cleanup -> clean_org -> delete_objects).        *)
(*                                                                          *)
(* The remote platform and the LLM are the environment: every remote call   *)
(* answers with one of the outcomes the client code distinguishes.          *)
(* Progress values are exact rationals in the runs; the float arithmetic of  *)
(* main's progress slices is modelled in binary64 in SpecProgress.          *)
(***************************************************************************)
EXTENDS Integers, Sequences, FiniteSets, TLC

VARIABLES
    pc,                \* position of the background unit in its code
    stage,             \* the stage of create_org.main / clean_org in progress
    args,              \* the Args object run_generation builds from the request
    task_status,       \* the run's TaskStatus (RunState) in the tasks registry
    current_progress,  \* main's local current_progress
    exc,               \* the exception in flight ("None" when there is none)
    calls,             \* remote and LLM calls issued by the stage in progress
    written,           \* artifacts saved by the stage in progress: name -> content
    loc,               \* the locals of the stage function in progress
    dev_user_ids,      \* main's local dev_user_ids
    accounts,          \* main's locals accounts (each with its rev_org)
    parts,             \* main's local parts: name -> [id, type, owned_by]
    stages,            \* main's local stages: the names of the stage vocabulary
    ld,                \* the frame of load_objects while it runs
    cleanup_status,    \* clean_org's local cleanup_status
    base_progress,     \* clean_org's local base_progress
    now,               \* time.time(), in seconds since the run was accepted
    tasks,             \* the keys of the tasks registry of main.py
    session_dirs,      \* the directories under sessions/: session id -> st_mtime
    timers,            \* the threading.Timer objects started: [session, due, fired]
    http_response,     \* the last request handled and its reply: [request, code, body]
    units,             \* further runs, by session id: what the closure of each holds
    files,             \* the files those runs have written: [base, directory, file]
    threads            \* the request and deleter threads of main.py: name -> locals

vars == <<pc, stage, args, task_status, current_progress, exc, calls, written, loc,
          dev_user_ids, accounts, parts, stages, ld, cleanup_status, base_progress, now,
          tasks, session_dirs, timers, http_response, units, files, threads>>

carried == <<dev_user_ids, accounts, parts, stages>>
cleanvars == <<cleanup_status, base_progress>>
unitvars == <<units, files, threads>>
webvars == <<tasks, session_dirs, timers, http_response, unitvars>>
pollvars == <<now, webvars>>

None == "None"
NoFrame == [frame |-> None]   \* no call of the kind is active

----------------------------------------------------------------------------
(* Bounds of the model *)

DevUserRows == 1   \* rows of data/common_input/dev_users.csv
AccountRows == 2   \* rows of data/common_input/accounts.csv
RevUserRows == 1   \* rows of data/common_input/rev_users.csv

(* Program constants *)

total_steps == 11
GptAttemptsOneMore == 3 + 1
GptAttempts == 3
min_per_part == 2

----------------------------------------------------------------------------
(* Exact arithmetic on the non-negative rationals n/d *)

RECURSIVE GCD(_, _)
GCD(a, b) == IF b = 0 THEN a ELSE GCD(b, a % b)

Frac(n, d) == LET g == GCD(n, d) IN [n |-> n \div g, d |-> d \div g]
Q(k) == [n |-> k, d |-> 1]
Plus(a, b) == Frac(a.n * b.d + b.n * a.d, a.d * b.d)
Minus(a, b) == Frac(a.n * b.d - b.n * a.d, a.d * b.d)
Times(a, b) == Frac(a.n * b.n, a.d * b.d)
Leq(a, b) == a.n * b.d <= b.n * a.d

step_weight == Frac(100, total_steps)

----------------------------------------------------------------------------
(* TaskStatus and the progress callbacks *)

TaskStatus == [progress |-> Q(0), status |-> "Initializing...", complete |-> FALSE,
               error |-> None, session_dir |-> None, last_update |-> 0]

\* TaskStatus.update: what progress_callback(status, progress) stores
update(status, progress) ==
    [task_status EXCEPT !.status = status, !.progress = progress, !.last_update = now]

\* the lambda main hands to every stage: prog in 0..100 mapped into the slice
SliceProgress(cp, prog) ==
    Plus(Minus(cp, step_weight), Times(prog, Frac(step_weight.n, step_weight.d * 100)))

\* a stage's update_progress(message, percent)
StageReport(message, percent) ==
    task_status' = update(message, SliceProgress(current_progress, percent))

\* save_payload_to_file(content, name, session_path)
save_payload_to_file(w, name, content) ==
    [n \in DOMAIN w \cup {name} |-> IF n = name THEN content ELSE w[n]]

NoFiles == [n \in {} |-> <<>>]

frame_stage == <<stage, args, current_progress, carried, cleanvars, pollvars>>
frame_call == <<frame_stage, task_status, written, ld>>

\* a step of a stage function that neither calls nor saves
Quiet == UNCHANGED <<frame_stage, exc, calls, written, ld>>

\* an exception leaves the code at pc for the handler at target
Raise(message, target) ==
    /\ exc' = message
    /\ pc' = target

Call(ep, payload) == calls' = Append(calls, [ep |-> ep, payload |-> payload])

----------------------------------------------------------------------------
(* main.py: the session of the run: its registry entry, its directory, its timer *)

session_id == "id"     \* the uuid4 the POST handler issued for the run

NoReply == [request |-> None, code |-> 0, body |-> None]

\* the POST handler has registered the run's TaskStatus; its thread has not run yet
InitWeb ==
    /\ tasks = {session_id}
    /\ session_dirs = [id \in {} |-> 0]
    /\ timers = <<>>
    /\ http_response = NoReply
    /\ units = [id \in {} |-> NoFrame]
    /\ files = {}
    /\ threads = [t \in {} |-> NoFrame]

\* Path("sessions") / session_id exists: made by create_session_directories and not
\* removed since, or made again by the mkdir(parents=True) of a save after a removal
SessionPath(id) == "sessions/" \o id

session_exists(id) ==
    /\ id \in DOMAIN session_dirs
    /\ \/ session_dirs[id].exists
       \/ id = session_id /\ written # NoFiles
       \/ \E f \in files : f.base = SessionPath(id)

\* create_session_directories(session_id): mkdir(parents=True, exist_ok=True)
mkdirs(sid) ==
    session_dirs' = IF session_exists(sid) THEN session_dirs
                    ELSE [id \in DOMAIN session_dirs \cup {sid} |->
                            IF id = sid THEN [exists |-> TRUE, mtime |-> now]
                            ELSE session_dirs[id]]

create_session_directories == mkdirs(session_id)

delete_delay == 3600

timer_forgotten == UNCHANGED timers

\* threading.Timer(3600, cleanup_session_files, args=[session_id]).start()
Timer(sid) == [session |-> sid, due |-> now + delete_delay, fired |-> FALSE]

start_timer ==
    timers' = Append(timers, Timer(session_id))

frame_run == <<stage, args, current_progress, carried, cleanvars, now, exc, calls, written,
               loc, ld>>

----------------------------------------------------------------------------
(* configuration_features.py *)

NoSnapIn == [found |-> FALSE, is_active |-> FALSE, state |-> "disabled"]

\* what snap-ins.list holds for the auto-reply snap-in
SnapIns == {NoSnapIn} \cup [found : {TRUE}, is_active : BOOLEAN, state : {"active", "disabled"}]

\* a test of the state alone
state_disabled(snap_in) == snap_in.state = "disabled"

\* line 54: not is_active or current_state == 'disabled'
already_inactive(snap_in) == ~snap_in.is_active \/ snap_in.state = "disabled"

deactivate_auto_reply_snapin ==
    \/ /\ pc = "deact:28"
       /\ StageReport("Starting auto-reply snap-in deactivation...", Q(0))
       /\ pc' = "deact:33"
       /\ UNCHANGED loc
       /\ Quiet
    \/ /\ pc = "deact:33"      \* snap-ins.list
       /\ Call("snap-ins.list", None)
       /\ \/ \E s \in SnapIns : loc' = [loc EXCEPT !.snap_in = s] /\ pc' = "deact:44" /\ exc' = exc
          \/ Raise("HTTPError", "deact:except") /\ UNCHANGED loc
       /\ UNCHANGED frame_call
    \/ /\ pc = "deact:44"
       /\ StageReport("Found auto-reply snap-in, checking status...", Q(50))
       /\ pc' = IF ~loc.snap_in.found THEN "deact:97"
                ELSE IF already_inactive(loc.snap_in) THEN "deact:57"
                ELSE "deact:72"
       /\ UNCHANGED loc
       /\ Quiet
    \/ /\ pc = "deact:57"
       /\ StageReport("Auto-reply snap-in is already inactive", Q(100))
       /\ pc' = "main:72"
       /\ UNCHANGED loc
       /\ Quiet
    \/ /\ pc = "deact:72"      \* snap-ins.deactivate
       /\ Call("snap-ins.deactivate", None)
       /\ \/ pc' = "deact:91" /\ exc' = exc
          \/ pc' = "deact:57" /\ exc' = exc   \* 400 "cannot be deactivated from inactive state"
          \/ Raise("HTTPError", "deact:except")
       /\ UNCHANGED <<frame_call, loc>>
    \/ /\ pc = "deact:91"
       /\ StageReport("Auto-reply snap-in deactivated successfully", Q(100))
       /\ pc' = "main:72"
       /\ UNCHANGED loc
       /\ Quiet
    \/ /\ pc = "deact:97"
       /\ StageReport("No auto-reply snap-in found to deactivate", Q(100))
       /\ pc' = "main:72"
       /\ UNCHANGED loc
       /\ Quiet
    \/ /\ pc = "deact:except"
       /\ StageReport("Error: Error managing auto-reply snap-in: " \o exc, Q(0))
       /\ pc' = "main:except"
       /\ UNCHANGED loc
       /\ Quiet

set_default_sla ==
    \/ /\ pc = "sla:117"
       /\ StageReport("Starting SLA configuration...", Q(0))
       /\ pc' = "sla:212"
       /\ UNCHANGED loc
       /\ Quiet
    \/ /\ pc = "sla:212"
       /\ StageReport("Creating SLA configuration...", Q(50))
       /\ pc' = "sla:215"
       /\ UNCHANGED loc
       /\ Quiet
    \/ /\ pc = "sla:215"       \* slas.create
       /\ Call("slas.create", "Default")
       /\ \/ \E id \in {"sla/1", ""} : loc' = [loc EXCEPT !.sla_id = id] /\ pc' = "sla:223" /\ exc' = exc
          \/ Raise("HTTPError", "sla:except") /\ UNCHANGED loc
       /\ UNCHANGED frame_call
    \/ /\ pc = "sla:223"
       /\ StageReport("Publishing SLA configuration...", Q(75))
       /\ pc' = IF loc.sla_id # "" THEN "sla:233" ELSE "main:90"
       /\ UNCHANGED loc
       /\ Quiet
    \/ /\ pc = "sla:233"       \* slas.transition
       /\ Call("slas.transition", loc.sla_id)
       /\ \/ pc' = "sla:238" /\ exc' = exc
          \/ Raise("HTTPError", "sla:except")
       /\ UNCHANGED <<frame_call, loc>>
    \/ /\ pc = "sla:238"
       /\ StageReport("SLA configuration completed successfully", Q(100))
       /\ pc' = "main:90"
       /\ UNCHANGED loc
       /\ Quiet
    \/ /\ pc = "sla:except"
       /\ StageReport("Error: Error configuring SLA: " \o exc, Q(0))
       /\ pc' = "main:except"
       /\ UNCHANGED loc
       /\ Quiet

----------------------------------------------------------------------------
(* devrev_objects.py: start_web_scrape, as main calls it *)

\* a second scrape whatever the support URL
support_url_ignored(support_url) == TRUE

\* create_org.py line 100: if support_url
support_url_given(support_url) == support_url # ""

start_web_scrape ==
    \/ /\ pc = "crawl:96"
       /\ IF args.company_url = ""
          THEN UNCHANGED <<calls, loc>>
          ELSE /\ Call("web-crawler-jobs.create", [url |-> args.company_url, max_depth |-> 2])
               /\ \E job \in {"job/1", None} : loc' = [loc EXCEPT !.company_job = job]
       /\ pc' = IF support_url_given(args.support_url) THEN "crawl:101" ELSE "main:108"
       /\ UNCHANGED <<frame_call, exc>>
    \/ /\ pc = "crawl:101"
       /\ Call("web-crawler-jobs.create", [url |-> args.support_url, max_depth |-> 4])
       /\ \E job \in {"job/2", None} : loc' = [loc EXCEPT !.kb_job = job]
       /\ pc' = "main:108"
       /\ UNCHANGED <<frame_call, exc>>

\* the stage vocabulary of the org, as stages.custom.list serves it
AllStages ==
    <<"queued", "triage", "qualification", "stalled", "validation", "negotiation", "contract",
      "closed_won", "closed_lost">>

Without(seq, x) ==
    LET RECURSIVE Drop(_)
        Drop(k) == IF k > Len(seq) THEN <<>>
                   ELSE (IF seq[k] = x THEN <<>> ELSE <<seq[k]>>) \o Drop(k + 1)
    IN  Drop(1)

StageVocabularies ==
    {AllStages, Without(AllStages, "queued"), Without(AllStages, "closed_won"),
     Without(AllStages, "contract"), <<>>}

----------------------------------------------------------------------------
(* devrev_objects.py: load_objects *)

PageSize == 2

\* what the platform may hold of each object type when it is first listed
Chars(org, n) == org \o <<"d", "e", "v", "u", "/">> \o n

\* a test for the suffix anywhere in the id
contains(str, suffix) ==
    \E k \in 1..Len(str) : /\ k + Len(suffix) - 1 <= Len(str)
                           /\ SubSeq(str, k, k + Len(suffix) - 1) = suffix

\* str.endswith
endswith(str, suffix) ==
    /\ Len(str) >= Len(suffix)
    /\ SubSeq(str, Len(str) - Len(suffix) + 1, Len(str)) = suffix

\* dev-user ids of the org: <org>devu/<n>
U1 == Chars(<<"o", ":">>, <<"1">>)
U2 == Chars(<<"o", ":">>, <<"2">>)
U11 == Chars(<<"o", ":">>, <<"1", "1">>)
V1 == Chars(<<"p", ":">>, <<"1">>)

Ids(seq) == [k \in DOMAIN seq |-> [id |-> seq[k]]]

\* what <object_type>.list may hold, in the platform's order
Collections(object_type) ==
    CASE object_type = "rev-users" -> {<<>>, Ids(<<"revu/7">>)}
      [] object_type = "stages.custom" -> StageVocabularies
      [] object_type = "parts" ->
            {<<>>,
             <<[id |-> "part/1", type |-> "product"], [id |-> "part/2", type |-> "capability"],
               [id |-> "part/3", type |-> "feature"]>>}
      [] object_type = "works" -> {<<>>, Ids(<<"work/1", "work/2">>)}
      [] object_type = "accounts" -> {<<>>, Ids(<<"acc/1">>)}
      [] object_type = "dev-users" ->
            {Ids(<<U1>>), Ids(<<U2, U1, U11>>), Ids(<<U11, U2>>), Ids(<<U1, V1, U2>>)}
      [] OTHER -> {<<>>}

file_name(object_type) ==
    CASE object_type = "stages.custom" -> "custom_stages"
      [] object_type = "rev-users" -> "rev_users"
      [] object_type = "dev-users" -> "dev_users"
      [] OTHER -> object_type

\* the caller's load_objects(PAT, base_url, object_type, session_path) call
LoadFrame(object_type, save, ret, handler) ==
    [object_type |-> object_type, objects |-> <<>>, cursor |-> "", remote |-> <<>>, paging |-> FALSE,
     save |-> save, ret |-> ret, handler |-> handler]

Min(a, b) == IF a <= b THEN a ELSE b

\* the cursor of the answer: the page's next_cursor, "end" when the answer has none
next_cursor_or_stay(upto, remote) == IF upto < Len(remote) THEN ToString(upto) ELSE ""
next_cursor_or_end(upto, remote) == IF upto < Len(remote) THEN ToString(upto) ELSE "end"

\* where the page a cursor asks for starts: no cursor asks for the first page
Offset(cursor, remote) ==
    IF cursor = "" THEN 0 ELSE CHOOSE k \in 0..Len(remote) : ToString(k) = cursor

\* load_objects against an endpoint that holds one of the collections and serves it in
\* pages of one of the sizes; the cursor of a page is the offset of the next one
load_pages(collections, sizes) ==
    \/ /\ pc = "load:50"       \* one GET of <object_type>.list
       /\ ld.cursor # "end"
       /\ Call(ld.object_type \o ".list", ld.cursor)
       /\ \/ /\ \E remote \in (IF ~ld.paging THEN collections ELSE {ld.remote}),
                     size \in sizes :
                   LET served == Offset(ld.cursor, remote)
                       upto == Min(served + size, Len(remote))
                   IN  ld' = [ld EXCEPT !.remote = remote, !.paging = TRUE,
                                        !.objects = @ \o SubSeq(remote, served + 1, upto),
                                        !.cursor = next_cursor_or_end(upto, remote)]
             /\ pc' = pc
             /\ exc' = exc
          \/ /\ Raise("HTTPError", ld.handler)
             /\ ld' = NoFrame
       /\ UNCHANGED <<frame_stage, task_status, written, loc>>
    \/ /\ pc = "load:50"
       /\ ld.cursor = "end"
       /\ written' = IF ld.save /\ ld.objects # <<>>
                     THEN save_payload_to_file(written, file_name(ld.object_type) \o "_loaded",
                                               ld.objects)
                     ELSE written
       /\ pc' = ld.ret
       /\ UNCHANGED <<frame_stage, task_status, exc, calls, loc, ld>>

load_objects == load_pages(Collections(ld.object_type), {PageSize})

----------------------------------------------------------------------------
(* devrev_objects.py: create_devusers, create_accounts, create_revusers *)

LoopProgress(base, span, idx, total) == Plus(Q(base), Frac(idx * span, total))

create_dev_user_payload ==
    [i \in 1..DevUserRows |-> [full_name |-> "dev" \o ToString(i), state |-> "shadow"]]

create_devusers ==
    \/ /\ pc = "devusers:185"
       /\ StageReport("DevUsers: Loading user data...", Q(0))
       /\ pc' = "devusers:188"
       /\ UNCHANGED loc
       /\ Quiet
    \/ /\ pc = "devusers:188"
       /\ loc' = [loc EXCEPT !.payloads = create_dev_user_payload]
       /\ written' = save_payload_to_file(written, "devusers", create_dev_user_payload)
       /\ pc' = "devusers:192"
       /\ UNCHANGED <<frame_stage, task_status, exc, calls, ld>>
    \/ /\ pc = "devusers:192"
       /\ StageReport("DevUsers: Preparing dev users...", Q(20))
       /\ pc' = IF loc.payloads = <<>> THEN "devusers:204" ELSE "devusers:196"
       /\ UNCHANGED loc
       /\ Quiet
    \/ /\ pc = "devusers:196"  \* post_objects(dev-users, [payload])
       /\ Call("dev-users.create", loc.payloads[loc.idx + 1])
       /\ \/ /\ loc' = [loc EXCEPT !.idx = @ + 1,
                                   !.responses = Append(@, "devu/" \o ToString(loc.idx + 2))]
             /\ pc' = "devusers:200"
             /\ exc' = exc
          \/ /\ Raise("HTTPError", "devusers:except")
             /\ UNCHANGED loc
       /\ UNCHANGED frame_call
    \/ /\ pc = "devusers:200"
       /\ StageReport("DevUsers: Creating dev users", LoopProgress(40, 60, loc.idx, Len(loc.payloads)))
       /\ pc' = IF loc.idx < Len(loc.payloads) THEN "devusers:196" ELSE "devusers:204"
       /\ UNCHANGED loc
       /\ Quiet
    \/ /\ pc = "devusers:204"
       /\ written' = IF loc.responses # <<>>
                     THEN save_payload_to_file(written, "devusers_responses", loc.responses)
                     ELSE written
       /\ pc' = "devusers:208"
       /\ UNCHANGED <<frame_stage, task_status, exc, calls, loc, ld>>
    \/ /\ pc = "devusers:208"
       /\ StageReport("DevUsers: Successfully created dev users", Q(100))
       /\ dev_user_ids' = loc.responses
       /\ pc' = "main:121"
       /\ UNCHANGED <<stage, args, current_progress, accounts, parts, stages, cleanvars, pollvars,
                      exc, calls, written, loc, ld>>
    \/ /\ pc = "devusers:except"
       /\ StageReport("DevUsers: Error creating dev users: " \o exc, Q(0))
       /\ pc' = "main:except"
       /\ UNCHANGED loc
       /\ Quiet

\* create_accounts_payload: one payload per row, each owned by random.choice(dev_users)
AccountPayloads(dev_users) ==
    { [i \in 1..AccountRows |-> [display_name |-> "acct" \o ToString(i), owned_by |-> o[i]]] :
        o \in [1..AccountRows -> {dev_users[k] : k \in DOMAIN dev_users}] }

\* the response of accounts.create: the account and the rev-org provisioned with it
AccountResponse(payload, i) ==
    [name |-> payload.display_name, id |-> "acc/" \o ToString(i),
     rev_org |-> [name |-> payload.display_name, id |-> "revo/" \o ToString(i)]]

rev_orgs == [i \in DOMAIN accounts |-> accounts[i].rev_org]

create_accounts ==
    \/ /\ pc = "accounts:244"
       /\ StageReport("Accounts: Preparing account data...", Q(0))
       /\ pc' = "accounts:249"
       /\ UNCHANGED loc
       /\ Quiet
    \/ /\ pc = "accounts:249"
       /\ IF AccountRows > 0 /\ dev_user_ids = <<>>
          THEN /\ Raise("IndexError", "accounts:except")
               /\ UNCHANGED <<loc, written>>
          ELSE /\ \E payloads \in AccountPayloads(dev_user_ids) :
                    /\ loc' = [loc EXCEPT !.payloads = payloads]
                    /\ written' = save_payload_to_file(written, "accounts", payloads)
               /\ pc' = "accounts:259"
               /\ exc' = exc
       /\ UNCHANGED <<frame_stage, task_status, calls, ld>>
    \/ /\ pc = "accounts:259"
       /\ StageReport("Accounts: Preparing accounts...", Q(20))
       /\ pc' = IF loc.payloads = <<>> THEN "accounts:290" ELSE "accounts:266"
       /\ UNCHANGED loc
       /\ Quiet
    \/ /\ pc = "accounts:266"
       /\ StageReport("Accounts: Creating account", LoopProgress(40, 60, loc.idx + 1, Len(loc.payloads)))
       /\ loc' = [loc EXCEPT !.idx = @ + 1]
       /\ pc' = "accounts:269"
       /\ Quiet
    \/ /\ pc = "accounts:269"  \* requests.post(accounts.create)
       /\ Call("accounts.create", loc.payloads[loc.idx])
       /\ LET next == IF loc.idx < Len(loc.payloads) THEN "accounts:266" ELSE "accounts:290"
          IN  \/ /\ loc' = [loc EXCEPT !.responses =
                                           Append(@, AccountResponse(loc.payloads[loc.idx], loc.idx))]
                 /\ pc' = next
                 /\ exc' = exc
              \/ /\ loc' = [loc EXCEPT !.existing_accounts_found = TRUE]     \* 409
                 /\ pc' = next
                 /\ exc' = exc
              \/ /\ Raise("HTTPError", "accounts:except")
                 /\ UNCHANGED loc
       /\ UNCHANGED frame_call
    \/ /\ pc = "accounts:290"
       /\ written' = LET w == IF loc.responses # <<>>
                              THEN save_payload_to_file(written, "accounts_responses", loc.responses)
                              ELSE written
                     IN  save_payload_to_file(w, "accounts_processed", loc.responses)
       /\ pc' = "accounts:313"
       /\ UNCHANGED <<frame_stage, task_status, exc, calls, loc, ld>>
    \/ /\ pc = "accounts:313"
       /\ StageReport("Accounts: Created accounts", Q(100))
       /\ accounts' = loc.responses
       /\ pc' = "main:135"
       /\ UNCHANGED <<stage, args, current_progress, dev_user_ids, parts, stages, cleanvars, pollvars,
                      exc, calls, written, loc, ld>>
    \/ /\ pc = "accounts:except"
       /\ StageReport("Accounts: Error with accounts: " \o exc, Q(0))
       /\ pc' = "main:except"
       /\ UNCHANGED loc
       /\ Quiet

\* create_rev_user_payload: one payload per row, in random.choice(rev_orgs)
RevUserPayloads(orgs) ==
    { [i \in 1..RevUserRows |-> [display_name |-> "cust" \o ToString(i), rev_org |-> o[i]]] :
        o \in [1..RevUserRows -> {orgs[k].id : k \in DOMAIN orgs}] }

create_revusers ==
    \/ /\ pc = "revusers:367"
       /\ StageReport("RevUsers: Loading customer user data...", Q(0))
       /\ pc' = "revusers:370"
       /\ UNCHANGED loc
       /\ Quiet
    \/ /\ pc = "revusers:370"
       /\ IF RevUserRows > 0 /\ rev_orgs = <<>>
          THEN /\ Raise("IndexError", "revusers:except")
               /\ UNCHANGED <<loc, written>>
          ELSE /\ \E payloads \in RevUserPayloads(rev_orgs) :
                    /\ loc' = [loc EXCEPT !.payloads = payloads]
                    /\ written' = save_payload_to_file(written, "revusers", payloads)
               /\ pc' = "revusers:372"
               /\ exc' = exc
       /\ UNCHANGED <<frame_stage, task_status, calls, ld>>
    \/ /\ pc = "revusers:372"
       /\ StageReport("RevUsers: Preparing customer users...", Q(20))
       /\ pc' = IF loc.payloads = <<>> THEN "revusers:396" ELSE "revusers:379"
       /\ UNCHANGED loc
       /\ Quiet
    \/ /\ pc = "revusers:379"
       /\ StageReport("RevUsers: Creating customer user", LoopProgress(40, 60, loc.idx + 1, Len(loc.payloads)))
       /\ loc' = [loc EXCEPT !.idx = @ + 1]
       /\ pc' = "revusers:382"
       /\ Quiet
    \/ /\ pc = "revusers:382"  \* post_objects(rev-users, [payload])
       /\ Call("rev-users.create", loc.payloads[loc.idx])
       /\ \/ loc' = [loc EXCEPT !.responses = Append(@, "revu/" \o ToString(loc.idx))]
          \/ loc' = [loc EXCEPT !.failed = Append(@, [user |-> loc.payloads[loc.idx].display_name,
                                                      reason |-> "HTTPError"])]
       /\ pc' = IF loc.idx < Len(loc.payloads) THEN "revusers:379" ELSE "revusers:396"
       /\ UNCHANGED <<frame_call, exc>>
    \/ /\ pc = "revusers:396"
       /\ written' = IF loc.failed # <<>>
                     THEN save_payload_to_file(written, "revusers_failed", loc.failed)
                     ELSE written
       /\ IF loc.responses = <<>>
          THEN /\ ld' = LoadFrame("rev-users", FALSE, "revusers:405", "revusers:except")
               /\ pc' = "load:50"
          ELSE /\ pc' = "revusers:414"
               /\ UNCHANGED ld
       /\ UNCHANGED <<frame_stage, task_status, exc, calls, loc>>
    \/ /\ pc = "revusers:405"
       /\ written' = save_payload_to_file(written, "revusers_existing", ld.objects)
       /\ loc' = [loc EXCEPT !.responses = ld.objects]
       /\ ld' = NoFrame
       /\ pc' = "revusers:427"
       /\ UNCHANGED <<frame_stage, task_status, exc, calls>>
    \/ /\ pc = "revusers:414"
       /\ written' = save_payload_to_file(
                         save_payload_to_file(written, "revusers_responses", loc.responses),
                         "revusers_processed", loc.responses)
       /\ pc' = "revusers:427"
       /\ UNCHANGED <<frame_stage, task_status, exc, calls, loc, ld>>
    \/ /\ pc = "revusers:427"
       /\ StageReport("RevUsers: customer users ready", Q(100))
       /\ pc' = "main:149"
       /\ UNCHANGED loc
       /\ Quiet
    \/ /\ pc = "revusers:except"
       /\ StageReport("RevUsers: Error creating customer users: " \o exc, Q(0))
       /\ pc' = "main:except"
       /\ UNCHANGED loc
       /\ Quiet

----------------------------------------------------------------------------
(* devrev_objects.py: create_trails, with GPT.py: prompt_gpt_for_trails *)

MaxEmptyReplies == 1   \* empty-mapping replies of the LLM in one run of create_trails

Feature(name, subs) == [name |-> name, subs |-> subs, list |-> TRUE]
ScalarFeature(name) == [name |-> name, subs |-> <<>>, list |-> FALSE]
Capability(name, features) == [name |-> name, features |-> features]

\* hierarchies the LLM may reply with: capability -> feature -> list (or another value)
PipelineHierarchies ==
    { <<Capability("A", <<Feature("F1", <<>>)>>)>> }

Hierarchies ==
    PipelineHierarchies \cup
    { <<Capability("A", <<Feature("F1", <<"S1", "S2">>)>>)>>,
      <<Capability("A", <<>>)>>,
      <<Capability("A", <<Feature("F1", <<"S1">>), ScalarFeature("F2")>>),
        Capability("B", <<Feature("F3", <<"S2">>)>>)>>,
      <<Capability("A", <<>>), Capability("B", <<Feature("A", <<"F1", "F1">>)>>)>> }

IsList(ft) == ft.list

\* total_items as lines 499-506 count it
TotalItems(trails_json) ==
    LET RECURSIVE Sum(_, _)
        Sum(f, n) == IF n = 0 THEN 0 ELSE f[n] + Sum(f, n - 1)
        FeatureCount(ft) == IF IsList(ft) THEN Len(ft.subs) ELSE 0
        CapCount(c) == 1 + Len(c.features)
                         + Sum([k \in DOMAIN c.features |-> FeatureCount(c.features[k])],
                               Len(c.features))
    IN  Sum([k \in DOMAIN trails_json |-> CapCount(trails_json[k])], Len(trails_json))

\* a walk that never enters the list of a feature
NextNodeFlat(trails_json, at) ==
    LET cap == trails_json[at.c]
    IN  IF at.f < Len(cap.features) THEN [c |-> at.c, f |-> at.f + 1, s |-> 0]
        ELSE [c |-> at.c + 1, f |-> 0, s |-> 0]

\* the position of the three nested loops: capability, feature (0: none yet), subfeature
FirstNode == [c |-> 1, f |-> 0, s |-> 0]

NextNode(trails_json, at) ==
    LET cap == trails_json[at.c]
        nextCap == [c |-> at.c + 1, f |-> 0, s |-> 0]
        nextFeature == IF at.f < Len(cap.features) THEN [c |-> at.c, f |-> at.f + 1, s |-> 0]
                       ELSE nextCap
    IN  IF at.f = 0 THEN (IF cap.features # <<>> THEN [c |-> at.c, f |-> 1, s |-> 0] ELSE nextCap)
        ELSE LET ft == cap.features[at.f]
             IN  IF at.s = 0
                 THEN (IF IsList(ft) /\ ft.subs # <<>> THEN [c |-> at.c, f |-> at.f, s |-> 1]
                       ELSE nextFeature)
                 ELSE (IF at.s < Len(ft.subs) THEN [c |-> at.c, f |-> at.f, s |-> at.s + 1]
                       ELSE nextFeature)

Level(at) == IF at.f = 0 THEN "capabilities" ELSE IF at.s = 0 THEN "features" ELSE "subfeatures"

\* the payload lines 532-537, 566-571, 601-606 build for the node at the loops' position
\* payloads that hang every feature-typed part under the capability
PartPayloadUnderCapability(trails_json, at, owner, capability_post_response, feature_post_response) ==
    LET cap == trails_json[at.c]
    IN  CASE Level(at) = "capabilities" ->
               [name |-> cap.name, type |-> "capability", owned_by |-> owner,
                parent_part |-> "PROD-1"]
          [] Level(at) = "features" ->
               [name |-> cap.features[at.f].name, type |-> "feature", owned_by |-> owner,
                parent_part |-> capability_post_response.id]
          [] Level(at) = "subfeatures" ->
               [name |-> cap.features[at.f].subs[at.s], type |-> "feature", owned_by |-> owner,
                parent_part |-> capability_post_response.id]

\* the payloads of lines 532-537, 563-568 and 601-606
PartPayload(trails_json, at, owner, capability_post_response, feature_post_response) ==
    LET cap == trails_json[at.c]
    IN  CASE Level(at) = "capabilities" ->
               [name |-> cap.name, type |-> "capability", owned_by |-> owner,
                parent_part |-> "PROD-1"]
          [] Level(at) = "features" ->
               [name |-> cap.features[at.f].name, type |-> "feature", owned_by |-> owner,
                parent_part |-> capability_post_response.id]
          [] Level(at) = "subfeatures" ->
               [name |-> cap.features[at.f].subs[at.s], type |-> "feature", owned_by |-> owner,
                parent_part |-> feature_post_response.id]

\* parts.update({name: {...}}): a dict keeps the position of a key it already holds
PartsUpdate(ps, part) ==
    IF \E k \in DOMAIN ps : ps[k].name = part.name
    THEN [k \in DOMAIN ps |-> IF ps[k].name = part.name THEN part ELSE ps[k]]
    ELSE Append(ps, part)

NoResponse == [id |-> None]

TrailsLocals == [gpt_retries |-> 0, empty_replies |-> 0, trails_json |-> <<>>, parts |-> <<>>,
                 current_item |-> 0, at |-> FirstNode,
                 capability_post_response |-> NoResponse,
                 feature_post_response |-> NoResponse,
                 created_items |-> <<>>]

create_trails(replies) ==
    \/ /\ pc = "trails:480"
       /\ StageReport("Product Hierarchy: Initializing GPT prompt...", Q(0))
       /\ pc' = "trails:488"
       /\ UNCHANGED loc
       /\ Quiet
    \/ /\ pc = "trails:488"
       /\ StageReport("Product Hierarchy: Prompting ChatGPT for product structure...", Q(5))
       /\ pc' = "trails:489"
       /\ UNCHANGED loc
       /\ Quiet
    \/ /\ pc = "trails:489"    \* prompt_gpt_for_trails
       /\ Call("chat.completions", "trails")
       /\ \/ /\ \E reply \in replies :
                   /\ loc' = [loc EXCEPT !.trails_json = reply]
                   /\ written' = save_payload_to_file(written, "trails_gpt", reply)
             /\ pc' = "trails:497"
          \/ /\ loc.empty_replies < MaxEmptyReplies     \* a valid, empty JSON object
             /\ loc' = [loc EXCEPT !.empty_replies = @ + 1]
             /\ written' = save_payload_to_file(written, "trails_gpt", <<>>)
             /\ pc' = "trails:488"
          \/ /\ loc' = [loc EXCEPT !.gpt_retries = @ + 1]   \* invalid JSON, or not an object
             /\ pc' = "trails:492"
             /\ UNCHANGED written
       /\ UNCHANGED <<frame_stage, task_status, exc, ld>>
    \/ /\ pc = "trails:492"
       /\ StageReport("Product Hierarchy: GPT attempt failed, retrying...", Q(5))
       /\ IF loc.gpt_retries = GptAttempts
          THEN Raise("GPT failed to return a response after 3 attempts", "trails:except")
          ELSE pc' = "trails:488" /\ exc' = exc
       /\ UNCHANGED <<frame_stage, calls, written, loc, ld>>
    \/ /\ pc = "trails:497"
       /\ written' = save_payload_to_file(written, "trails_gpt", loc.trails_json)
       /\ pc' = "trails:508"
       /\ UNCHANGED <<frame_stage, task_status, exc, calls, loc, ld>>
    \/ /\ pc = "trails:508"
       /\ StageReport("Product Hierarchy: Preparing to create items...", Q(10))
       /\ pc' = "trails:527"
       /\ UNCHANGED loc
       /\ Quiet
    \/ /\ pc = "trails:527"    \* current_item += 1 and the report before each create
       /\ loc.at.c <= Len(loc.trails_json)
       /\ loc' = [loc EXCEPT !.current_item = @ + 1]
       /\ StageReport("Product Hierarchy: Creating " \o Level(loc.at),
                      LoopProgress(10, 80, loc.current_item + 1, TotalItems(loc.trails_json)))
       /\ pc' = "trails:539"
       /\ Quiet
    \/ /\ pc = "trails:539"    \* post_objects(parts, [payload])
       /\ IF dev_user_ids = <<>>
          THEN /\ Raise("IndexError", "trails:except")
               /\ UNCHANGED <<loc, calls>>
          ELSE \E owner \in {dev_user_ids[k] : k \in DOMAIN dev_user_ids} :
                 LET payload == PartPayload(loc.trails_json, loc.at, owner,
                                            loc.capability_post_response,
                                            loc.feature_post_response)
                     response == [id |-> "part/" \o ToString(loc.current_item),
                                  name |-> payload.name, type |-> payload.type,
                                  owned_by |-> payload.owned_by,
                                  parent_part |-> payload.parent_part]
                 IN  /\ Call("parts.create", payload)
                     /\ \/ /\ loc' = [loc EXCEPT
                                 !.capability_post_response =
                                     IF Level(loc.at) = "capabilities" THEN response ELSE @,
                                 !.feature_post_response =
                                     IF Level(loc.at) = "features" THEN response ELSE @,
                                 !.parts = PartsUpdate(@, [name |-> response.name,
                                                           id |-> response.id,
                                                           type |-> response.type,
                                                           owned_by |-> response.owned_by]),
                                 !.created_items = Append(@, [level |-> Level(loc.at),
                                                              part |-> response]),
                                 !.at = NextNode(loc.trails_json, loc.at)]
                           /\ pc' = "trails:527"
                           /\ exc' = exc
                        \/ /\ Raise("HTTPError", "trails:except")
                           /\ UNCHANGED loc
       /\ UNCHANGED frame_call
    \/ /\ pc = "trails:527"    \* all three loops are done
       /\ loc.at.c > Len(loc.trails_json)
       /\ written' = save_payload_to_file(
                         save_payload_to_file(written, "trails_responses", loc.created_items),
                         "parts", loc.parts)
       /\ pc' = "trails:630"
       /\ UNCHANGED <<frame_stage, task_status, exc, calls, loc, ld>>
    \/ /\ pc = "trails:630"
       /\ StageReport("Product Hierarchy: Created total parts successfully", Q(100))
       /\ parts' = loc.parts
       /\ pc' = "main:169"
       /\ UNCHANGED <<stage, args, current_progress, dev_user_ids, accounts, stages, cleanvars, pollvars,
                      exc, calls, written, loc, ld>>
    \/ /\ pc = "trails:except"
       /\ StageReport("Product Hierarchy: Error creating product hierarchy: " \o exc, Q(0))
       /\ pc' = "main:except"
       /\ UNCHANGED loc
       /\ Quiet

----------------------------------------------------------------------------
(* devrev_objects.py: create_tickets, create_issues, with GPT.py:
   prompt_gpt_for_tickets, prompt_gpt_for_issues *)

MaxItems == 1          \* items in one LLM reply

At(kind, label) == kind \o ":" \o label

\* a stage name the vocabulary may hold for the kind, and one it never holds
ItemStages(kind) == {IF kind = "tickets" THEN "queued" ELSE "triage", "bogus"}

NotAnObject == "not an object"   \* an element of the array that is no JSON object

\* the replies of the LLM for one part: text json.loads rejects, or a JSON array whose
\* elements are items (given by their stage) or values that are no objects
ItemReplies(kind, n) ==
    {[parses |-> FALSE, items |-> <<>>]} \cup
    {[parses |-> TRUE, items |-> r] :
        r \in UNION {[1..k -> ItemStages(kind) \cup {NotAnObject}] : k \in 0..n}}

\* the try block of lines 190-196 runs through: json.loads accepts the text and every
\* element takes the item assignment ticket["applies_to_part"] = part
extends_always(reply) == reply.parses
extends(reply) == reply.parses /\ \A k \in DOMAIN reply.items : reply.items[k] # NotAnObject

\* lines 192-194 of GPT.py: every parsed item tagged with its part and type
TagItems(kind, reply, part) ==
    [k \in DOMAIN reply |->
        [title |-> kind \o "/" \o part \o "/" \o ToString(k), stage |-> reply[k],
         applies_to_part |-> part, type |-> kind]]

PartNamed(ps, name) == CHOOSE q \in {ps[k] : k \in DOMAIN ps} : q.name = name
HasPart(ps, name) == \E k \in DOMAIN ps : ps[k].name = name

max_per_part(kind) == IF kind = "tickets" THEN args.max_tickets ELSE args.max_issues

\* whom random.choice picks from for the payload of one item
Pool(kind) == IF kind = "tickets" THEN {rev_orgs[k].id : k \in DOMAIN rev_orgs}
              ELSE {dev_user_ids[k] : k \in DOMAIN dev_user_ids}

\* a payload that takes the first part of the map whatever the item was generated for
WorkPayloadOfFirstPart(kind, item, pick) ==
    [title |-> item.title, type |-> item.type, stage |-> "stage/" \o item.stage,
     applies_to_part |-> parts[1].id, owned_by |-> parts[1].owned_by, rev_org |-> pick]

\* lines 693-699 (tickets) and the payload of create_issues: name and stage resolved
WorkPayload(kind, item, pick) ==
    IF kind = "tickets"
    THEN [title |-> item.title, type |-> item.type, stage |-> "stage/" \o item.stage,
          applies_to_part |-> PartNamed(parts, item.applies_to_part).id,
          owned_by |-> PartNamed(parts, item.applies_to_part).owned_by, rev_org |-> pick]
    ELSE [title |-> item.title, type |-> item.type, stage |-> "stage/" \o item.stage,
          applies_to_part |-> PartNamed(parts, item.applies_to_part).id,
          owned_by |-> pick, priority |-> "p2"]

\* why building the payload of an item fails, None if it does not
LookupError(kind, item) ==
    IF ~HasPart(parts, item.applies_to_part) THEN "KeyError: part"
    ELSE IF item.stage \notin stages THEN "KeyError: stage"
    ELSE IF Pool(kind) = {} THEN "IndexError"
    ELSE None

\* a failure record that keeps only the title of the item
FailureTruncated(item, error) ==
    [title |-> item.title, error |-> error, payload |-> [title |-> item.title]]

Failure(item, error) == [title |-> item.title, error |-> error, payload |-> item]

NoItemReply == [parses |-> FALSE, items |-> <<>>]

WorkLocals == [items |-> <<>>, part |-> 0, i |-> 1, idx |-> 0, reply |-> NoItemReply,
               responses |-> <<>>, failed |-> <<>>]

prompt_gpt_for_items(kind, n) ==
    \/ /\ pc = At(kind, "gpt:127")
       /\ StageReport(kind \o ": Starting generation...", Q(0))
       /\ pc' = At(kind, "gpt:142")
       /\ UNCHANGED loc
       /\ Quiet
    \/ /\ pc = At(kind, "gpt:142")     \* one part: randint, then the completion
       /\ loc.part < Len(parts)
       /\ IF max_per_part(kind) < min_per_part
          THEN /\ Raise("ValueError", At(kind, "except"))
               /\ UNCHANGED <<loc, calls>>
          ELSE /\ Call("chat.completions", [kind |-> kind, part |-> parts[loc.part + 1].name])
               /\ \/ \E reply \in ItemReplies(kind, n) :
                        IF ~extends(reply)
                        THEN /\ loc' = [loc EXCEPT !.part = @ + 1, !.reply = reply]
                             /\ pc' = pc
                             /\ exc' = exc
                        ELSE /\ loc' = [loc EXCEPT
                                   !.part = @ + 1, !.reply = reply,
                                   !.items = @ \o TagItems(kind, reply.items, parts[loc.part + 1].name)]
                             /\ pc' = At(kind, "gpt:204")
                             /\ exc' = exc
                  \/ /\ Raise("APIError", At(kind, "except"))
                     /\ UNCHANGED loc
       /\ UNCHANGED frame_call
    \/ /\ pc = At(kind, "gpt:204")
       /\ StageReport(kind \o ": Generating content for part",
                      Times(Frac(loc.i * 100, Len(parts)), Frac(4, 10)))
       /\ loc' = [loc EXCEPT !.i = @ + 1]
       /\ pc' = At(kind, "gpt:142")
       /\ Quiet
    \/ /\ pc = At(kind, "gpt:142")     \* every part prompted
       /\ loc.part = Len(parts)
       /\ written' = save_payload_to_file(written, kind \o "_gpt", loc.items)
       /\ pc' = At(kind, "685")
       /\ UNCHANGED <<frame_stage, task_status, exc, calls, loc, ld>>

create_items(kind, return) ==
    \/ /\ pc = At(kind, "663")
       /\ StageReport(kind \o ": Preparing to generate content...", Q(0))
       /\ pc' = At(kind, "gpt:127")
       /\ UNCHANGED loc
       /\ Quiet
    \/ /\ pc = At(kind, "685")
       /\ StageReport(kind \o ": Creating in DevRev...", Q(40))
       /\ pc' = IF loc.items = <<>> THEN At(kind, "721") ELSE At(kind, "690")
       /\ UNCHANGED loc
       /\ Quiet
    \/ /\ pc = At(kind, "690")         \* one item: the payload, then post_objects(works)
       /\ LET item == loc.items[loc.idx + 1]
              next == IF loc.idx + 1 < Len(loc.items) THEN At(kind, "690") ELSE At(kind, "721")
          IN  IF LookupError(kind, item) # None
              THEN /\ loc' = [loc EXCEPT !.idx = @ + 1,
                                         !.failed = Append(@, Failure(item, LookupError(kind, item)))]
                   /\ pc' = next
                   /\ UNCHANGED calls
              ELSE \E pick \in Pool(kind) :
                     /\ Call("works.create", WorkPayload(kind, item, pick))
                     /\ \/ /\ loc' = [loc EXCEPT
                                 !.idx = @ + 1,
                                 !.responses = Append(@, [id |-> "work/" \o ToString(loc.idx + 1),
                                                          title |-> item.title])]
                           /\ pc' = At(kind, "708")
                        \/ /\ loc' = [loc EXCEPT !.idx = @ + 1,
                                                 !.failed = Append(@, Failure(item, "HTTPError"))]
                           /\ pc' = next
       /\ UNCHANGED <<frame_call, exc>>
    \/ /\ pc = At(kind, "708")
       /\ StageReport(kind \o ": Creating in DevRev", LoopProgress(40, 60, loc.idx, Len(loc.items)))
       /\ pc' = IF loc.idx < Len(loc.items) THEN At(kind, "690") ELSE At(kind, "721")
       /\ UNCHANGED loc
       /\ Quiet
    \/ /\ pc = At(kind, "721")
       /\ written' =
            LET w1 == IF loc.failed # <<>>
                      THEN save_payload_to_file(written, kind \o "_failed", loc.failed)
                      ELSE written
                w2 == IF loc.responses # <<>>
                      THEN save_payload_to_file(w1, kind \o "_responses", loc.responses)
                      ELSE w1
            IN  IF kind = "tickets"
                THEN save_payload_to_file(w2, "tickets_processed", loc.responses)
                ELSE w2
       /\ pc' = At(kind, "743")
       /\ UNCHANGED <<frame_stage, task_status, exc, calls, loc, ld>>
    \/ /\ pc = At(kind, "743")
       /\ StageReport(kind \o ": Successfully created", Q(100))
       /\ pc' = return
       /\ UNCHANGED loc
       /\ Quiet
    \/ /\ pc = At(kind, "except")
       /\ StageReport(kind \o ": Error creating: " \o exc, Q(0))
       /\ pc' = "main:except"
       /\ UNCHANGED loc
       /\ Quiet

\* create_tickets handing control back to the point main called it from
create_tickets_again(n) ==
    create_items("tickets", "main:181") \/ prompt_gpt_for_items("tickets", n)

create_tickets(n) == create_items("tickets", "main:205") \/ prompt_gpt_for_items("tickets", n)
create_issues(n) == create_items("issues", "main:230") \/ prompt_gpt_for_items("issues", n)

----------------------------------------------------------------------------
(* devrev_objects.py: create_opportunities, create_opportunities_payload *)

stage_forecast_mapping ==
    {"qualification", "stalled", "validation", "negotiation", "contract", "closed_won",
     "closed_lost"}

UpsellStages == {"negotiation", "contract"}

BaseOpportunity(account, st, owner) ==
    [type |-> "opportunity", title |-> account.name, owned_by |-> owner,
     account |-> account.id, stage |-> "stage/" \o st]

Upsell(opportunity, st) ==
    [type |-> "opportunity", title |-> opportunity.title \o " - Upsell",
     owned_by |-> opportunity.owned_by, account |-> opportunity.account,
     stage |-> "stage/" \o st]

\* line 966: opportunity["stage"]["id"] == stages["closed_won"]
spawns_if_closed(opportunity) == opportunity.stage \in {"stage/closed_won", "stage/closed_lost"}
spawns_upsell(opportunity) == opportunity.stage = "stage/closed_won"

RECURSIVE Upsells(_, _, _)
\* the second loop of create_opportunities_payload: it walks the list it appends to, from
\* position k on; up[k] is what random.choice gives at position k
Upsells(opportunities, up, k) ==
    IF k > Len(opportunities) THEN opportunities
    ELSE IF spawns_upsell(opportunities[k])
         THEN Upsells(Append(opportunities, Upsell(opportunities[k], up[k])), up, k + 1)
         ELSE Upsells(opportunities, up, k + 1)

create_opportunities ==
    \/ /\ pc = "opps:878"
       /\ StageReport("Opportunities: Preparing opportunity data...", Q(0))
       /\ pc' = "opps:881"
       /\ UNCHANGED loc
       /\ Quiet
    \/ /\ pc = "opps:881"      \* create_opportunities_payload, then the save
       /\ IF accounts = <<>>
          THEN /\ written' = save_payload_to_file(written, "opportunities", <<>>)
               /\ pc' = "opps:888"
               /\ UNCHANGED <<loc, exc>>
          ELSE IF dev_user_ids = <<>>
          THEN /\ Raise("IndexError", "opps:except")
               /\ UNCHANGED <<loc, written>>
          ELSE \E st \in [DOMAIN accounts -> stage_forecast_mapping],
                  owner \in [DOMAIN accounts -> {dev_user_ids[k] : k \in DOMAIN dev_user_ids}] :
               \E up \in [1..(2 * Len(accounts)) -> UpsellStages] :
                 LET base == [k \in DOMAIN accounts |->
                                 BaseOpportunity(accounts[k], st[k], owner[k])]
                     missing == \/ \E k \in DOMAIN accounts : st[k] \notin stages
                                \/ "closed_won" \notin stages
                                \/ \E k \in DOMAIN accounts :
                                       st[k] = "closed_won" /\ up[k] \notin stages
                     opportunities == Upsells(base, up, 1)
                 IN  IF missing
                     THEN /\ Raise("KeyError", "opps:except")
                          /\ UNCHANGED <<loc, written>>
                     ELSE /\ loc' = [loc EXCEPT !.items = opportunities]
                          /\ written' = save_payload_to_file(written, "opportunities",
                                                             opportunities)
                          /\ pc' = "opps:888"
                          /\ exc' = exc
       /\ UNCHANGED <<frame_stage, task_status, calls, ld>>
    \/ /\ pc = "opps:888"
       /\ StageReport("Opportunities: Prepared opportunities", Q(30))
       /\ pc' = IF loc.items = <<>> THEN "opps:913" ELSE "opps:896"
       /\ UNCHANGED loc
       /\ Quiet
    \/ /\ pc = "opps:896"      \* post_objects(works, [opp])
       /\ Call("works.create", loc.items[loc.idx + 1])
       /\ \/ /\ loc' = [loc EXCEPT
                   !.idx = @ + 1,
                   !.responses = Append(@, [id |-> "work/" \o ToString(loc.idx + 1),
                                            title |-> loc.items[loc.idx + 1].title])]
             /\ pc' = "opps:900"
          \/ /\ loc' = [loc EXCEPT !.idx = @ + 1,
                                   !.failed = Append(@, Failure(loc.items[loc.idx + 1],
                                                                "HTTPError"))]
             /\ pc' = IF loc.idx + 1 < Len(loc.items) THEN "opps:896" ELSE "opps:913"
       /\ UNCHANGED <<frame_call, exc>>
    \/ /\ pc = "opps:900"
       /\ StageReport("Opportunities: Creating opportunity",
                      LoopProgress(30, 70, loc.idx, Len(loc.items)))
       /\ pc' = IF loc.idx < Len(loc.items) THEN "opps:896" ELSE "opps:913"
       /\ UNCHANGED loc
       /\ Quiet
    \/ /\ pc = "opps:913"
       /\ written' =
            LET w1 == IF loc.failed # <<>>
                      THEN save_payload_to_file(written, "opportunities_failed", loc.failed)
                      ELSE written
            IN  IF loc.responses # <<>>
                THEN save_payload_to_file(w1, "opportunities_responses", loc.responses)
                ELSE w1
       /\ pc' = "opps:920"
       /\ UNCHANGED <<frame_stage, task_status, exc, calls, loc, ld>>
    \/ /\ pc = "opps:920"
       /\ StageReport("Opportunities: Successfully created opportunities", Q(100))
       /\ pc' = "main:246"
       /\ UNCHANGED loc
       /\ Quiet
    \/ /\ pc = "opps:except"
       /\ StageReport("Opportunities: Error creating opportunities: " \o exc, Q(0))
       /\ pc' = "main:except"
       /\ UNCHANGED loc
       /\ Quiet

----------------------------------------------------------------------------
(* main.py: run_generation *)

run_generation ==
    \/ /\ pc = "thread"
       /\ task_status' = [task_status EXCEPT !.status = "Starting content generation..."]
       /\ pc' = "thread:110"
       /\ UNCHANGED <<frame_stage, exc, calls, written, loc, ld>>
    \/ /\ pc = "thread:110"
       /\ task_status' = [task_status EXCEPT !.progress = Q(5)]
       /\ pc' = "thread:114"
       /\ UNCHANGED <<frame_stage, exc, calls, written, loc, ld>>
    \/ /\ pc = "thread:114"
       /\ create_session_directories
       /\ task_status' = [task_status EXCEPT !.session_dir = "sessions/id"]
       /\ pc' = "main"
       /\ UNCHANGED <<frame_run, tasks, timers, http_response, unitvars>>
    \/ /\ pc = "main:returned"
       /\ task_status' = [task_status EXCEPT !.progress = Q(100)]
       /\ pc' = "thread:140"
       /\ UNCHANGED <<frame_stage, exc, calls, written, loc, ld>>
    \/ /\ pc = "thread:140"
       /\ task_status' = [task_status EXCEPT
                             !.status = "Content generation completed successfully"]
       /\ pc' = "thread:141"
       /\ UNCHANGED <<frame_stage, exc, calls, written, loc, ld>>
    \/ /\ pc = "thread:141"
       /\ task_status' = [task_status EXCEPT !.complete = TRUE]
       /\ pc' = "thread:finally"
       /\ UNCHANGED <<frame_stage, exc, calls, written, loc, ld>>
    \/ /\ pc = "main:raised"
       /\ task_status' = [task_status EXCEPT !.error = exc]
       /\ pc' = "thread:152"
       /\ UNCHANGED <<frame_stage, exc, calls, written, loc, ld>>
    \/ /\ pc = "thread:152"
       /\ task_status' = [task_status EXCEPT !.status = "Error: " \o exc]
       /\ pc' = "thread:finally"
       /\ UNCHANGED <<frame_stage, exc, calls, written, loc, ld>>
    \/ /\ pc = "thread:finally"
       /\ start_timer
       /\ pc' = "thread:end"
       /\ UNCHANGED <<frame_run, task_status, tasks, session_dirs, http_response, unitvars>>

----------------------------------------------------------------------------
(* create_org.py: main *)

\* current_progress += step_weight; update_progress(header, current_progress)
EnterStage(s, header, to) ==
    /\ current_progress' = Plus(current_progress, step_weight)
    /\ task_status' = update(header, current_progress')
    /\ stage' = s
    /\ pc' = to
    /\ calls' = <<>>
    /\ written' = NoFiles
    /\ UNCHANGED <<args, exc, carried, cleanvars, pollvars>>

SkipStage(to) ==
    /\ pc' = to
    /\ UNCHANGED <<frame_stage, task_status, exc, calls, written, loc, ld>>

main ==
    \/ /\ pc = "main"
       /\ current_progress' = Q(0)
       /\ task_status' = update("Initializing...", current_progress')
       /\ pc' = "main:59"
       /\ UNCHANGED <<stage, args, exc, calls, written, loc, carried, ld, cleanvars, pollvars>>
    \/ /\ pc = "main:59"
       /\ IF args.settings.deactivate_auto_reply
          THEN /\ EnterStage("deactivate", "Deactivating auto-reply snap-in...", "deact:28")
               /\ UNCHANGED ld
               /\ loc' = [snap_in |-> NoSnapIn]
          ELSE SkipStage("main:72")
    \/ /\ pc = "main:72"
       /\ IF args.settings.set_SLA
          THEN /\ EnterStage("sla", "Setting up SLA configuration...", "get_revoid")
               /\ UNCHANGED ld
               /\ loc' = [sla_id |-> None]
          ELSE SkipStage("main:90")
    \/ /\ pc = "get_revoid"     \* line 76: the dev-org id the SLA is created for
       /\ Call("dev-orgs.self", None)
       /\ \/ pc' = "sla:117" /\ exc' = exc
          \/ Raise("HTTPError", "main:except")
       /\ UNCHANGED <<frame_call, loc>>
    \/ /\ pc = "main:90"
       /\ IF args.settings.crawl_site
          THEN /\ EnterStage("crawl", "Starting web scrapes...", "crawl:96")
               /\ UNCHANGED ld
               /\ loc' = [company_job |-> None, kb_job |-> None]
          ELSE SkipStage("main:108")
    \/ /\ pc = "main:108"
       /\ EnterStage("devusers", "Creating developer users...", "devusers:185")
       /\ UNCHANGED ld
       /\ loc' = [payloads |-> <<>>, responses |-> <<>>, idx |-> 0]
    \/ /\ pc = "main:121"
       /\ EnterStage("accounts", "Creating accounts...", "accounts:244")
       /\ UNCHANGED ld
       /\ loc' = [payloads |-> <<>>, responses |-> <<>>, idx |-> 0,
                  existing_accounts_found |-> FALSE]
    \/ /\ pc = "main:135"
       /\ EnterStage("revusers", "Creating customer users...", "revusers:367")
       /\ UNCHANGED ld
       /\ loc' = [payloads |-> <<>>, responses |-> <<>>, failed |-> <<>>, idx |-> 0]
    \/ /\ pc = "main:149"
       /\ EnterStage("trails", "Creating product hierarchy...", "trails:480")
       /\ UNCHANGED ld
       /\ loc' = TrailsLocals
    \/ /\ pc = "main:169"
       /\ EnterStage("load_stages", "Loading stages...", "load:50")
       /\ loc' = NoFrame
       /\ ld' = LoadFrame("stages.custom", FALSE, "main:172", "main:177")
    \/ /\ pc = "main:172"        \* the dict comprehension over the loaded stages
       /\ stages' = {ld.objects[k] : k \in DOMAIN ld.objects}
       /\ ld' = NoFrame
       /\ pc' = "main:181"
       /\ UNCHANGED <<stage, args, task_status, current_progress, exc, calls, written, loc,
                      dev_user_ids, accounts, parts, cleanvars, pollvars>>
    \/ /\ pc = "main:177"
       /\ task_status' = update("Error loading stages: " \o exc, current_progress)
       /\ pc' = "main:except"
       /\ UNCHANGED <<frame_stage, exc, calls, written, loc, ld>>
    \/ /\ pc = "main:181"
       /\ EnterStage("tickets", "Creating tickets...", "tickets:663")
       /\ UNCHANGED ld
       /\ loc' = WorkLocals
    \/ /\ pc = "main:205"
       /\ EnterStage("issues", "Creating issues...", "issues:663")
       /\ UNCHANGED ld
       /\ loc' = WorkLocals
    \/ /\ pc = "main:230"
       /\ EnterStage("opportunities", "Creating opportunities...", "opps:878")
       /\ UNCHANGED ld
       /\ loc' = WorkLocals
    \/ /\ pc = "main:246"
       /\ task_status' = update("All operations completed successfully", Q(100))
       /\ stage' = "final"
       /\ pc' = "main:returned"
       /\ UNCHANGED <<args, current_progress, exc, calls, written, loc, carried, ld, cleanvars, pollvars>>
    \/ /\ pc = "main:except"
       /\ task_status' = update("Error: " \o exc, current_progress)
       /\ pc' = "main:raised"
       /\ UNCHANGED <<frame_stage, exc, calls, written, loc, ld>>

----------------------------------------------------------------------------
(* The provisioning run: POST /api/generate accepted, the background unit started *)

Requests ==
    [pat : {"ey"},
     company_url : {"", "https://company"},
     support_url : {"", "https://kb"},
     max_tickets : {0, 2},
     max_issues : {0, 2},
     settings : [deactivate_auto_reply : BOOLEAN, set_SLA : BOOLEAN, crawl_site : BOOLEAN]]

NoCleanup == [frame |-> None]

InitGenerate ==
    /\ pc = "thread"
    /\ stage = "init"
    /\ args \in Requests
    /\ task_status = TaskStatus
    /\ current_progress = Q(0)
    /\ exc = None
    /\ calls = <<>>
    /\ written = NoFiles
    /\ loc = NoFrame
    /\ dev_user_ids = <<>>
    /\ accounts = <<>>
    /\ parts = <<>>
    /\ stages = {}
    /\ ld = NoFrame
    /\ cleanup_status = NoCleanup
    /\ base_progress = Q(0)
    /\ now = 0
    /\ InitWeb

NextGenerate ==
    \/ run_generation
    \/ main
    \/ deactivate_auto_reply_snapin
    \/ set_default_sla
    \/ start_web_scrape
    \/ create_devusers
    \/ create_accounts
    \/ create_revusers
    \/ create_trails(PipelineHierarchies)
    \/ load_objects
    \/ create_tickets(MaxItems)
    \/ create_issues(MaxItems)
    \/ create_opportunities

SpecGenerate == InitGenerate /\ [][NextGenerate]_vars

----------------------------------------------------------------------------
(* Claims about the provisioning run *)

\* C1: the progress values written to the run's TaskStatus never decrease.
C1_ProgressNeverDecreases ==
    [][Leq(task_status.progress, task_status'.progress)]_vars

ItemLoopPcs == {"tickets:690", "tickets:708", "issues:690", "issues:708", "opps:896", "opps:900"}
ItemsSavedPcs == {"tickets:743", "issues:743", "opps:920"}
ItemsDonePcs == {"tickets:721", "issues:721", "opps:913"} \cup ItemsSavedPcs

Titles(seq) == {seq[k].title : k \in DOMAIN seq}

C2_EveryItemAccounted ==
    pc \in ItemsDonePcs =>
       /\ Len(loc.responses) + Len(loc.failed) = Len(loc.items)
       /\ Titles(loc.responses) \cap Titles(loc.failed) = {}
       /\ Titles(loc.responses) \cup Titles(loc.failed) = Titles(loc.items)
       /\ \A j \in DOMAIN loc.failed :
             \E k \in DOMAIN loc.items : /\ loc.failed[j].payload = loc.items[k]
                                         /\ loc.failed[j].title = loc.items[k].title
       \* every item whose payload could be built was posted, in the order of the list
       /\ LET posted == {k \in DOMAIN loc.items :
                            \A j \in DOMAIN loc.failed :
                               loc.failed[j].title = loc.items[k].title
                                  => loc.failed[j].error = "HTTPError"}
          IN  /\ Len(calls) >= Cardinality(posted)
              /\ LET last == (Len(calls) - Cardinality(posted) + 1)..Len(calls)
                 IN  /\ \A c \in last : calls[c].ep = "works.create"
                     /\ {calls[c].payload.title : c \in last}
                           = {loc.items[k].title : k \in posted}

C2_FailuresPersisted ==
    pc \in ItemsSavedPcs =>
       /\ loc.failed # <<>> =>
             /\ (stage \o "_failed") \in DOMAIN written
             /\ written[stage \o "_failed"] = loc.failed
       /\ loc.failed = <<>> => (stage \o "_failed") \notin DOMAIN written
       /\ loc.responses # <<>> =>
             /\ (stage \o "_responses") \in DOMAIN written
             /\ written[stage \o "_responses"] = loc.responses

\* C2: in create_tickets, create_issues and create_opportunities a failing item never
\* raises out of the item loop; at the end of the loop every item is either among the
\* responses (the value returned) or in exactly one {title, error, payload} failure
\* record holding that item, every item whose payload resolved was posted, and the
\* failure records are the ones persisted.
C2_PartialFailureTolerated ==
    /\ [](C2_EveryItemAccounted /\ C2_FailuresPersisted)
    /\ [][(pc \in ItemLoopPcs) => (pc' \in ItemLoopPcs \cup ItemsDonePcs)]_vars

C2_Witness ==
    /\ pc \in ItemsSavedPcs
    /\ Len(loc.items) >= 2
    /\ loc.failed # <<>>
    /\ loc.failed[1].title = loc.items[1].title
    /\ loc.responses # <<>>
    /\ loc.responses[1].title = loc.items[2].title

MainPcs ==
    {"main", "main:59", "main:72", "main:90", "main:108", "main:121", "main:135", "main:149",
     "main:169", "main:172", "main:177", "main:181", "main:205", "main:230", "main:246",
     "main:except", "main:returned", "main:raised"}
ThreadPcs == {"thread", "thread:110", "thread:114", "thread:140", "thread:141", "thread:152",
              "thread:finally", "thread:end"}

StageRank(s) ==
    CASE s = "init" -> 0
      [] s = "deactivate" -> 1
      [] s = "sla" -> 2
      [] s = "crawl" -> 3
      [] s = "devusers" -> 4
      [] s = "accounts" -> 5
      [] s = "revusers" -> 6
      [] s = "trails" -> 7
      [] s = "load_stages" -> 8
      [] s = "tickets" -> 9
      [] s = "issues" -> 10
      [] s = "opportunities" -> 11
      [] s = "final" -> 12

StageEnabled(s) ==
    CASE s = "deactivate" -> args.settings.deactivate_auto_reply
      [] s = "sla" -> args.settings.set_SLA
      [] s = "crawl" -> args.settings.crawl_site
      [] OTHER -> TRUE

\* control passes from main into a stage function
C3_StageStarts == pc \in MainPcs /\ pc' \notin (MainPcs \cup ThreadPcs)

\* C3: main runs its stages in the fixed order, each enabled stage at most once and only
\* from a point of main that the previous stage returned to; once a stage has raised no
\* call is issued and no stage starts, and main re-raises instead of returning.
C3_StagesInOrder ==
    /\ [][/\ C3_StageStarts =>
              /\ StageRank(stage') > StageRank(stage)
              /\ StageEnabled(stage')
              /\ exc = None
          /\ stage' # stage => pc \in MainPcs /\ StageRank(stage') > StageRank(stage)
          /\ exc # None => /\ calls' = calls
                           /\ stage' = stage
                           /\ exc' = exc
                           /\ ~C3_StageStarts
          /\ pc = "main:except" => pc' = "main:raised"]_vars
    /\ [](pc = "main:returned" => exc = None /\ stage = "final")
    /\ [](pc = "main:raised" => exc # None)

C3_Witness ==
    /\ pc = "main:raised"
    /\ stage = "tickets"
    /\ args.settings.set_SLA
    /\ ~args.settings.crawl_site

\* C6: when accounts.create answered 409, create_accounts read the existing accounts
\* and hands a non-empty list of accounts on to the later stages.
C6_ConflictFallsBackToExisting ==
    (pc = "main:135" /\ stage = "accounts" /\ loc.existing_accounts_found) =>
       /\ \E k \in DOMAIN calls : calls[k].ep = "accounts.list"
       /\ accounts # <<>>

----------------------------------------------------------------------------
(* create_trails on its own: main has run create_devusers, create_accounts and
   create_revusers for a request with no setting enabled, and calls create_trails *)

InitTrails ==
    /\ pc = "trails:480"
    /\ stage = "trails"
    /\ args = [pat |-> "ey", company_url |-> "https://company", support_url |-> "",
               max_tickets |-> 2, max_issues |-> 2,
               settings |-> [deactivate_auto_reply |-> FALSE, set_SLA |-> FALSE,
                             crawl_site |-> FALSE]]
    /\ current_progress = Times(Q(4), step_weight)
    /\ task_status = [TaskStatus EXCEPT !.progress = Times(Q(4), step_weight),
                                        !.status = "Creating product hierarchy...",
                                        !.session_dir = "sessions/id"]
    /\ exc = None
    /\ calls = <<>>
    /\ written = NoFiles
    /\ loc = TrailsLocals
    /\ dev_user_ids = [i \in 1..DevUserRows |-> "devu/" \o ToString(i + 1)]
    /\ accounts \in {[i \in DOMAIN p |-> AccountResponse(p[i], i)] :
                        p \in AccountPayloads(dev_user_ids)}
    /\ parts = <<>>
    /\ stages = {}
    /\ ld = NoFrame
    /\ cleanup_status = NoCleanup
    /\ base_progress = Q(0)
    /\ now = 0
    /\ InitWeb

NextTrails == create_trails(Hierarchies)

SpecTrails == InitTrails /\ [][NextTrails]_vars

\* the nodes of a hierarchy in the order of the three nested loops, each with the
\* position of its parent node (0: the root part)
RECURSIVE FlatFeatures(_, _, _, _)
FlatFeatures(features, k, capability, offset) ==
    IF k > Len(features) THEN <<>>
    ELSE LET ft == features[k]
             subs == IF ft.list
                     THEN [i \in DOMAIN ft.subs |->
                              [level |-> "subfeatures", name |-> ft.subs[i], parent |-> offset + 1]]
                     ELSE <<>>
         IN  <<[level |-> "features", name |-> ft.name, parent |-> capability]>> \o subs
               \o FlatFeatures(features, k + 1, capability, offset + 1 + Len(subs))

RECURSIVE FlatCapabilities(_, _, _)
FlatCapabilities(trails_json, k, offset) ==
    IF k > Len(trails_json) THEN <<>>
    ELSE LET below == FlatFeatures(trails_json[k].features, 1, offset + 1, offset + 1)
         IN  <<[level |-> "capabilities", name |-> trails_json[k].name, parent |-> 0]>>
               \o below \o FlatCapabilities(trails_json, k + 1, offset + 1 + Len(below))

CreateCalls == {k \in DOMAIN calls : calls[k].ep = "parts.create"}
GeneratorCalls == {k \in DOMAIN calls : calls[k].ep = "chat.completions"}

\* C4: the parts create_trails has created are the nodes of the hierarchy, one part per
\* capability, feature and subfeature entry, the parent of a capability the root part
\* and the parent of a feature or subfeature the id the platform returned for the
\* capability or feature above it; when the loops are done every node has its part.
C4_OnePartPerNode ==
    (stage = "trails" /\ loc.trails_json # <<>> /\ exc = None) =>
       LET nodes == FlatCapabilities(loc.trails_json, 1, 0)
           created == loc.created_items
       IN  /\ Len(created) <= Len(nodes)
           /\ Len(created) <= Cardinality(CreateCalls)
           /\ Cardinality(CreateCalls) <= Len(created) + 1
           /\ pc \in {"trails:630", "main:169"} =>
                 Len(created) = Len(nodes) /\ Cardinality(CreateCalls) = Len(nodes)
           /\ \A j \in DOMAIN created :
                 /\ created[j].level = nodes[j].level
                 /\ created[j].part.name = nodes[j].name
                 /\ created[j].part.parent_part =
                       IF nodes[j].parent = 0 THEN "PROD-1"
                       ELSE created[nodes[j].parent].part.id
                 /\ nodes[j].parent # 0 =>
                       created[nodes[j].parent].level =
                          IF nodes[j].level = "features" THEN "capabilities" ELSE "features"

LevelCount(level) ==
    Cardinality({j \in DOMAIN loc.created_items : loc.created_items[j].level = level})

C4_Witness ==
    /\ pc = "trails:630"
    /\ loc.trails_json = <<Capability("A", <<Feature("F1", <<"S1", "S2">>)>>)>>
    /\ LevelCount("capabilities") = 1
    /\ LevelCount("features") = 1
    /\ LevelCount("subfeatures") = 2

C5_ThreeFailedCalls ==
    (stage = "trails" /\ Cardinality(GeneratorCalls) = loc.gpt_retries) =>
       /\ Cardinality(GeneratorCalls) <= 3
       /\ CreateCalls = {}
       /\ Cardinality(GeneratorCalls) = 3 => pc \in {"trails:492", "trails:except", "main:except"}

\* C5: while every call of the generator has failed, create_trails has made at most 3
\* calls and created no part; after the third failure it raises and calls no more.
C5_ThreeAttemptsThenFatal ==
    /\ []C5_ThreeFailedCalls
    /\ [][(pc = "trails:492" /\ Cardinality(GeneratorCalls) = loc.gpt_retries
              /\ loc.gpt_retries = 3)
            => (pc' = "trails:except" /\ exc' # None /\ calls' = calls)]_vars
    /\ [][(pc \in {"trails:except", "main:except"}) => calls' = calls]_vars

C5_Witness ==
    /\ pc = "main:except"
    /\ exc = "GPT failed to return a response after 3 attempts"
    /\ Cardinality(GeneratorCalls) = 3
    /\ loc.gpt_retries = 3

----------------------------------------------------------------------------
(* devrev_objects.py: clean_org, delete_objects *)

cleanup_steps == 5     \* clean_org's total_steps
delete_step_weight == 20

\* accounts deleted before the rev-users that belong to them
AccountsFirst == <<"parts", "works", "accounts", "rev-users", "dev-users">>

\* the object types of the five steps of clean_org
CleanupOrder == <<"parts", "works", "rev-users", "accounts", "dev-users">>

StatusKey(object_type) ==
    CASE object_type = "rev-users" -> "rev_users"
      [] object_type = "dev-users" -> "dev_users"
      [] OTHER -> object_type

InitialCleanupStatus ==
    [parts |-> [total |-> 0, deleted |-> 0, failed |-> 0],
     works |-> [total |-> 0, deleted |-> 0, failed |-> 0],
     rev_users |-> [total |-> 0, deleted |-> 0, failed |-> 0],
     accounts |-> [total |-> 0, deleted |-> 0, failed |-> 0],
     dev_users |-> [total |-> 0, deleted |-> 0, failed |-> 0, protected |-> 0],
     error |-> None]

\* the list comprehensions of lines 1170, 1196, 1222, 1248 and 1274
Deletable(object_type, objects) ==
    LET keep(o) == CASE object_type = "parts" -> o.type # "product"
                     [] object_type = "dev-users" -> ~endswith(o.id, <<"d", "e", "v", "u", "/", "1">>)
                     [] OTHER -> TRUE
        RECURSIVE Filter(_)
        Filter(k) == IF k > Len(objects) THEN <<>>
                     ELSE (IF keep(objects[k]) THEN <<objects[k].id>> ELSE <<>>) \o Filter(k + 1)
    IN  Filter(1)

CleanLocals == [current_step |-> 0, listed |-> <<>>, objects |-> <<>>, i |-> 0,
                failed_deletions |-> <<>>, responses |-> <<>>]

\* progress_callback of run_cleanup: task_status.update, unscaled
CleanupReport(message, percent) == task_status' = update(message, percent)

frame_clean == <<args, current_progress, carried, pollvars>>

\* a handler that remembers only the failure it has just caught
except_forgets(failed_deletions, id, answer) ==
    IF answer = "ok" THEN failed_deletions ELSE <<[id |-> id, error |-> answer]>>

\* lines 91-101 of delete_objects: what the answer to one delete call leaves in
\* failed_deletions
except_handler(failed_deletions, id, answer) ==
    IF answer = "ok" THEN failed_deletions
    ELSE Append(failed_deletions, [id |-> id, error |-> answer])

\* every id handed to delete_objects counted as deleted
StepCountsAllDeleted(objects, failed_deletions) ==
    [failed |-> Len(failed_deletions), deleted |-> Len(objects)]

\* lines 1179-1180 (and 1205-1206, 1231-1232, 1257-1258, 1284-1285): the counts a step
\* stores from what delete_objects returned
StepCounts(objects, failed_deletions) ==
    [failed |-> Len(failed_deletions), deleted |-> Len(objects) - Len(failed_deletions)]

\* the share of the step left unscaled
step_progress_unweighted(base, i, total_iterations) ==
    Plus(base, Frac((i + 1) * 100, total_iterations))

\* lines 102 and 112: progress = (i + 1) / total_iterations * 100, then
\* step_progress = base_progress + (progress * step_weight / 100)
step_progress(base, i, total_iterations) ==
    Plus(base, Times(Frac((i + 1) * 100, total_iterations), Frac(delete_step_weight, 100)))

delete_objects ==
    \/ /\ pc = "delete:92"     \* requests.post(<object_type>.delete) for objects[i]
       /\ Call(stage \o ".delete", [id |-> loc.objects[loc.i + 1]])
       /\ \E answer \in {"ok", "HTTPError"} :
            loc' = [loc EXCEPT
                      !.responses = Append(@, answer),
                      !.failed_deletions = except_handler(@, loc.objects[loc.i + 1], answer)]
       /\ pc' = "delete:115"
       /\ UNCHANGED <<frame_clean, stage, cleanvars, task_status, exc, written, ld>>
    \/ /\ pc = "delete:115"
       /\ CleanupReport("Deleting " \o stage,
                        step_progress(base_progress, loc.i, Len(loc.objects)))
       /\ loc' = [loc EXCEPT !.i = @ + 1]
       /\ pc' = IF loc.i + 1 < Len(loc.objects) THEN "delete:92" ELSE "clean:1179"
       /\ UNCHANGED <<frame_clean, stage, cleanvars, exc, calls, written, ld>>

clean_org ==
    \/ /\ pc = "clean:1164"    \* the next step: its base progress, then load_objects
       /\ loc.current_step < cleanup_steps
       /\ LET step == loc.current_step + 1
          IN  /\ loc' = [CleanLocals EXCEPT !.current_step = step]
              /\ stage' = CleanupOrder[step]
              /\ base_progress' = Frac((step - 1) * 100, cleanup_steps)
              /\ CleanupReport("Loading " \o CleanupOrder[step] \o "...",
                               Frac((step - 1) * 100, cleanup_steps))
              /\ ld' = LoadFrame(CleanupOrder[step], TRUE, "clean:1170", "clean:except")
       /\ pc' = "load:50"
       /\ UNCHANGED <<frame_clean, cleanup_status, exc, calls, written>>
    \/ /\ pc = "clean:1170"    \* the ids to delete, and the totals
       /\ LET ids == Deletable(stage, ld.objects)
          IN  /\ loc' = [loc EXCEPT !.listed = ld.objects, !.objects = ids]
              /\ cleanup_status' =
                   IF stage = "dev-users"
                   THEN [cleanup_status EXCEPT
                           !.dev_users.total = Len(ld.objects),
                           !.dev_users.protected = Len(ld.objects) - Len(ids)]
                   ELSE [cleanup_status EXCEPT ![StatusKey(stage)].total = Len(ids)]
              /\ pc' = IF ids # <<>> THEN "delete:92" ELSE "clean:1183"
       /\ ld' = NoFrame
       /\ UNCHANGED <<frame_clean, stage, base_progress, task_status, exc, calls, written>>
    \/ /\ pc = "clean:1179"    \* delete_objects returned failed_deletions
       /\ cleanup_status' =
            [cleanup_status EXCEPT
               ![StatusKey(stage)].failed = StepCounts(loc.objects, loc.failed_deletions).failed,
               ![StatusKey(stage)].deleted = StepCounts(loc.objects, loc.failed_deletions).deleted]
       /\ pc' = "clean:1187"
       /\ UNCHANGED <<frame_clean, stage, base_progress, task_status, exc, calls, written, loc,
                      ld>>
    \/ /\ pc = "clean:1183"
       /\ CleanupReport("No " \o stage \o " to delete", Plus(base_progress, Q(20)))
       /\ pc' = "clean:1187"
       /\ UNCHANGED <<frame_clean, stage, cleanvars, exc, calls, written, loc, ld>>
    \/ /\ pc = "clean:1187"
       /\ written' = save_payload_to_file(written, "cleanup_status_responses", cleanup_status)
       /\ pc' = IF loc.current_step < cleanup_steps THEN "clean:1164" ELSE "clean:1306"
       /\ UNCHANGED <<frame_clean, stage, cleanvars, task_status, exc, calls, loc, ld>>
    \/ /\ pc = "clean:1306"
       /\ CleanupReport("Cleanup process completed", Q(100))
       /\ pc' = "clean:returned"
       /\ UNCHANGED <<frame_clean, stage, cleanvars, exc, calls, written, loc, ld>>
    \/ /\ pc = "clean:except"
       /\ cleanup_status' = [cleanup_status EXCEPT !.error = exc]
       /\ written' = save_payload_to_file(written, "cleanup_status_responses", cleanup_status')
       /\ pc' = "cleanup:raised"
       /\ UNCHANGED <<frame_clean, stage, base_progress, task_status, exc, calls, loc, ld>>

----------------------------------------------------------------------------
(* main.py: run_cleanup *)

run_cleanup ==
    \/ /\ pc = "cleanup"
       /\ create_session_directories
       /\ task_status' = [task_status EXCEPT !.session_dir = "sessions/id"]
       /\ pc' = "cleanup:199"
       /\ UNCHANGED <<frame_run, tasks, timers, http_response, unitvars>>
    \/ /\ pc = "cleanup:199"
       /\ task_status' = [task_status EXCEPT !.status = "Starting cleanup..."]
       /\ pc' = "cleanup:200"
       /\ UNCHANGED <<frame_stage, exc, calls, written, loc, ld>>
    \/ /\ pc = "cleanup:200"
       /\ task_status' = [task_status EXCEPT !.progress = Q(10)]
       /\ pc' = "clean:1164"
       /\ loc' = CleanLocals
       /\ cleanup_status' = InitialCleanupStatus
       /\ UNCHANGED <<frame_clean, stage, base_progress, exc, calls, written, ld>>
    \/ /\ pc = "clean:returned"
       /\ task_status' = [task_status EXCEPT !.progress = Q(100)]
       /\ pc' = "cleanup:210"
       /\ UNCHANGED <<frame_stage, exc, calls, written, loc, ld>>
    \/ /\ pc = "cleanup:210"
       /\ task_status' = [task_status EXCEPT !.status = "Cleanup completed successfully"]
       /\ pc' = "cleanup:211"
       /\ UNCHANGED <<frame_stage, exc, calls, written, loc, ld>>
    \/ /\ pc = "cleanup:211"
       /\ task_status' = [task_status EXCEPT !.complete = TRUE]
       /\ pc' = "cleanup:finally"
       /\ UNCHANGED <<frame_stage, exc, calls, written, loc, ld>>
    \/ /\ pc = "cleanup:raised"
       /\ task_status' = [task_status EXCEPT !.error = exc]
       /\ pc' = "cleanup:216"
       /\ UNCHANGED <<frame_stage, exc, calls, written, loc, ld>>
    \/ /\ pc = "cleanup:216"
       /\ task_status' = [task_status EXCEPT !.status = "Error: " \o exc]
       /\ pc' = "cleanup:finally"
       /\ UNCHANGED <<frame_stage, exc, calls, written, loc, ld>>
    \/ /\ pc = "cleanup:finally"
       /\ start_timer
       /\ pc' = "cleanup:end"
       /\ UNCHANGED <<frame_run, task_status, tasks, session_dirs, http_response, unitvars>>

InitCleanup ==
    /\ pc = "cleanup"
    /\ stage = "init"
    /\ args \in {r \in Requests : /\ r.company_url = "" /\ r.support_url = ""
                                  /\ r.max_tickets = 0 /\ r.max_issues = 0
                                  /\ r.settings = [deactivate_auto_reply |-> FALSE,
                                                   set_SLA |-> FALSE, crawl_site |-> FALSE]}
    /\ task_status = TaskStatus
    /\ current_progress = Q(0)
    /\ exc = None
    /\ calls = <<>>
    /\ written = NoFiles
    /\ loc = NoFrame
    /\ dev_user_ids = <<>>
    /\ accounts = <<>>
    /\ parts = <<>>
    /\ stages = {}
    /\ ld = NoFrame
    /\ cleanup_status = NoCleanup
    /\ base_progress = Q(0)
    /\ now = 0
    /\ InitWeb

NextCleanup ==
    \/ run_cleanup
    \/ clean_org
    \/ delete_objects
    \/ load_objects

SpecCleanup == InitCleanup /\ [][NextCleanup]_vars

----------------------------------------------------------------------------
(* main.py: GET /api/progress/<session_id>, and the passing of time *)

poll_timeout == 300    \* seconds without an update after which a poll reports a timeout
TickSeconds == 200
MaxNow == 400

Tick ==
    /\ now < MaxNow
    /\ now' = now + TickSeconds
    /\ UNCHANGED <<pc, stage, args, task_status, current_progress, exc, calls, written, loc,
                   carried, ld, cleanvars, webvars>>

\* response_data of a poll served from the TaskStatus ts
response_data(ts) ==
    [progress |-> ts.progress, status |-> ts.status, complete |-> ts.complete,
     error |-> ts.error]

\* a timeout that also takes the completion back
timed_out_and_reopened(ts) ==
    [ts EXCEPT !.error = "Operation timed out", !.status = "Error: Operation timed out",
               !.complete = FALSE]

\* lines 245-247: what a poll later than poll_timeout after the last update writes
timed_out(ts) ==
    [ts EXCEPT !.error = "Operation timed out", !.status = "Error: Operation timed out"]

progress ==
    /\ task_status' =
         IF now - task_status.last_update > poll_timeout
         THEN timed_out(task_status)
         ELSE task_status
    /\ UNCHANGED <<pc, stage, args, current_progress, exc, calls, written, loc, carried, ld,
                   cleanvars, pollvars>>

\* one provisioning run or one cleanup run, polled by its client while time passes
InitPolled ==
    \/ /\ InitGenerate
       /\ args.settings = [deactivate_auto_reply |-> TRUE, set_SLA |-> TRUE,
                           crawl_site |-> TRUE]
       /\ args.company_url # ""
       /\ args.support_url # ""
       /\ args.max_tickets = 2
       /\ args.max_issues = 2
    \/ InitCleanup

NextPolled ==
    \/ NextGenerate
    \/ NextCleanup
    \/ Tick
    \/ progress

SpecPolled == InitPolled /\ [][NextPolled]_vars

----------------------------------------------------------------------------
(* Claims about the cleanup run *)

ProtectedDevUsers == {U1, V1}
ProductParts == {"part/1"}

Deletes(object_type) == {k \in DOMAIN calls : calls[k].ep = object_type \o ".delete"}
Lists(object_type) == {k \in DOMAIN calls : calls[k].ep = object_type \o ".list"}

\* C8: no delete call names a dev-user whose id ends with devu/1 or a part of type
\* product; when the listed dev-users hold exactly one protected id, the ids handed to
\* delete_objects are all the others and cleanup_status counts one protected user.
C8_ProtectedNeverDeleted ==
    /\ \A k \in Deletes("dev-users") : calls[k].payload.id \notin ProtectedDevUsers
    /\ \A k \in Deletes("parts") : calls[k].payload.id \notin ProductParts
    /\ (stage = "dev-users" /\ pc \in {"delete:92", "delete:115", "clean:1179", "clean:1183"}) =>
          LET listed == {loc.listed[k].id : k \in DOMAIN loc.listed}
          IN  Cardinality(listed \cap ProtectedDevUsers) = 1 =>
                 /\ {loc.objects[k] : k \in DOMAIN loc.objects} = listed \ ProtectedDevUsers
                 /\ Len(loc.objects) = Len(loc.listed) - 1
                 /\ cleanup_status.dev_users.protected = 1

C8_Witness ==
    /\ pc = "clean:1179"
    /\ stage = "dev-users"
    /\ loc.listed = Ids(<<U2, U1, U11>>)
    /\ Cardinality(Deletes("dev-users")) = 2
    /\ Deletes("parts") # {}

CleanupRank(ep) ==
    CASE ep \in {"parts.list", "parts.delete"} -> 1
      [] ep \in {"works.list", "works.delete"} -> 2
      [] ep \in {"rev-users.list", "rev-users.delete"} -> 3
      [] ep \in {"accounts.list", "accounts.delete"} -> 4
      [] ep \in {"dev-users.list", "dev-users.delete"} -> 5

C9_CallsInOrder ==
    /\ \A j, k \in DOMAIN calls : j < k => CleanupRank(calls[j].ep) <= CleanupRank(calls[k].ep)
    /\ \A t \in {"parts", "works", "rev-users", "accounts", "dev-users"} :
          /\ \A j \in Lists(t), k \in Deletes(t) : j < k
          /\ (\E k \in DOMAIN calls : CleanupRank(calls[k].ep) > CleanupRank(t \o ".list")) =>
                Cardinality(Deletes(t)) = cleanup_status[StatusKey(t)].total
    /\ exc # None => calls # <<>> /\ calls[Len(calls)].ep \in
                        {"parts.list", "works.list", "rev-users.list", "accounts.list",
                         "dev-users.list"}

\* C9: the calls of clean_org come in the order parts, works, rev-users, accounts,
\* dev-users, the list calls of a type before its delete calls; a call for a later type is
\* issued only when every id of the earlier type has had its delete call; and an answer
\* to a delete call, failed or not, leads on to the rest of the run, never to the handler.
C9_OrderedAndTolerant ==
    /\ []C9_CallsInOrder
    /\ [][pc = "delete:92" => pc' = "delete:115" /\ exc' = None]_vars

C9_Witness ==
    /\ pc = "clean:returned"
    /\ cleanup_status.parts.failed = 2
    /\ cleanup_status.works.failed = 1
    /\ cleanup_status.dev_users.deleted = 2

\* the delete calls of the step in progress, oldest first
StepDeletes ==
    LET n == Cardinality(Deletes(stage))
    IN  [k \in 1..n |-> calls[Len(calls) - n + k].payload.id]

C10_OneCallPerId ==
    (pc \in {"delete:92", "delete:115", "clean:1179"}) =>
       /\ StepDeletes = SubSeq(loc.objects, 1, Len(StepDeletes))
       /\ Len(loc.responses) = Len(StepDeletes)
       /\ pc = "clean:1179" => Len(StepDeletes) = Len(loc.objects)
       /\ LET failed == {k \in DOMAIN loc.responses : loc.responses[k] # "ok"}
          IN  /\ Len(loc.failed_deletions) = Cardinality(failed)
              /\ \A k \in failed :
                    \E j \in DOMAIN loc.failed_deletions :
                       /\ loc.failed_deletions[j].id = loc.objects[k]
                       /\ loc.failed_deletions[j].error = loc.responses[k]
                       /\ j = Cardinality({f \in failed : f <= k})
              /\ (loc.failed_deletions = <<>>) <=> (failed = {})

\* C10: delete_objects issues one delete call per id, in list order, goes on to the next
\* id whatever the answer, never raises on a failed answer, and returns one {id, error}
\* record per failed id, in order, and none for a deleted one.
C10_DeleteCollectsFailures ==
    /\ []C10_OneCallPerId
    /\ [][(pc \in {"delete:92", "delete:115"}) =>
             (pc' \in {"delete:92", "delete:115", "clean:1179"} /\ exc' = None)]_vars

C10_Witness ==
    /\ pc = "clean:1179"
    /\ stage = "dev-users"
    /\ loc.objects = <<U2, U11>>
    /\ loc.responses = <<"HTTPError", "ok">>
    /\ Len(loc.failed_deletions) = 1

\* the CleanupStatus artifact of the session, all zero while none has been saved
SavedStatus ==
    IF "cleanup_status_responses" \in DOMAIN written
    THEN written["cleanup_status_responses"] ELSE InitialCleanupStatus

ZeroCounts(object_type) ==
    IF object_type = "dev-users" THEN [total |-> 0, deleted |-> 0, failed |-> 0, protected |-> 0]
    ELSE [total |-> 0, deleted |-> 0, failed |-> 0]

\* the steps whose counts the artifact holds: all before the current one, and the current
\* one once its save at the end of the step has run
StepsSaved ==
    IF loc = NoFrame THEN 0
    ELSE IF pc \in {"clean:1164", "clean:1306", "clean:returned", "cleanup:210", "cleanup:211",
                    "cleanup:finally", "cleanup:end"} /\ exc = None
         THEN loc.current_step
         ELSE IF loc.current_step = 0 THEN 0 ELSE loc.current_step - 1

C11_Balanced ==
    \A j \in 1..cleanup_steps :
       LET c == SavedStatus[StatusKey(CleanupOrder[j])]
       IN  /\ c.total = c.deleted + c.failed
                          + (IF CleanupOrder[j] = "dev-users" THEN c.protected ELSE 0)
           /\ j > StepsSaved => c = ZeroCounts(CleanupOrder[j])

\* just after the save of a step: its counts are the answers its delete calls received
C11_CountsAreOutcomes ==
    (pc \in {"clean:1164", "clean:1306"} /\ loc # NoFrame /\ loc.current_step >= 1) =>
       LET t == CleanupOrder[loc.current_step]
           c == SavedStatus[StatusKey(t)]
           ok == {k \in DOMAIN loc.responses : loc.responses[k] = "ok"}
       IN  /\ Cardinality(Deletes(t)) = Len(loc.responses)
           /\ c.deleted = Cardinality(ok)
           /\ c.failed = Len(loc.responses) - Cardinality(ok)
           /\ t = "dev-users" =>
                 c.protected = Cardinality({k \in DOMAIN loc.listed :
                                             loc.listed[k].id \in ProtectedDevUsers})
           /\ SavedStatus = cleanup_status

\* C11: every saved CleanupStatus balances (total = deleted + failed, + protected for
\* dev-users), holds for a finished step exactly the outcomes of that step's delete calls,
\* which later saves (the one on the error path included) leave as they are, and holds
\* zeros for every step that has not finished.
C11_AccuratePartialRecord ==
    /\ [](C11_Balanced /\ C11_CountsAreOutcomes)
    /\ [][\A j \in 1..cleanup_steps :
             SavedStatus'[StatusKey(CleanupOrder[j])] # SavedStatus[StatusKey(CleanupOrder[j])]
                => (pc = "clean:1187" /\ stage = CleanupOrder[j])]_vars

C11_Witness ==
    /\ pc = "cleanup:raised"
    /\ stage = "accounts"
    /\ SavedStatus.error = "HTTPError"
    /\ SavedStatus.parts = [total |-> 2, deleted |-> 1, failed |-> 1]
    /\ SavedStatus.works.deleted = 2
    /\ SavedStatus.accounts.total = 0

----------------------------------------------------------------------------
(* Claims about a run and its poller *)

HandlerDonePcs == {"thread:finally", "thread:end", "cleanup:finally", "cleanup:end"}

\* C7: once the background unit has handled the exception of main or clean_org, a poll
\* of the run returns the message of that exception as error, "Error: <message>" as
\* status and complete false.
C7_PollReturnsTheError ==
    (pc \in HandlerDonePcs /\ exc # None) =>
       /\ response_data(task_status).error = exc
       /\ response_data(task_status).status = "Error: " \o exc
       /\ ~response_data(task_status).complete

----------------------------------------------------------------------------
(* The progress arithmetic of create_org.main as Python computes it: floats are  *)
(* IEEE-754 binary64, every operation rounded to nearest, ties to even. A value  *)
(* is a non-negative multiple of 2^-(FracLimbs * LimbBits), held as Limbs limbs  *)
(* of LimbBits bits, least significant first.                                    *)

LimbBits == 20
FracLimbs == 3
Limbs == 4
Mantissa == 53     \* significant bits of a Python float

RECURSIVE Pow2(_)
Pow2(k) == IF k = 0 THEN 1 ELSE 2 * Pow2(k - 1)

Base == Pow2(LimbBits)

\* float(n) for a small int n
FromInt(n) == [i \in 1..Limbs |-> IF i = FracLimbs + 1 THEN n ELSE 0]

\* the exact sum a + b, from limb i on
RECURSIVE AddFrom(_, _, _, _)
AddFrom(a, b, i, carry) ==
    IF i > Limbs THEN <<>>
    ELSE LET s == a[i] + b[i] + carry
         IN  <<s % Base>> \o AddFrom(a, b, i + 1, s \div Base)

\* the exact difference a - b of a >= b
RECURSIVE SubFrom(_, _, _, _)
SubFrom(a, b, i, borrow) ==
    IF i > Limbs THEN <<>>
    ELSE LET s == a[i] - b[i] - borrow
         IN  <<s % Base>> \o SubFrom(a, b, i + 1, IF s < 0 THEN 1 ELSE 0)

\* the exact product a * n for a small int n
RECURSIVE TimesFrom(_, _, _, _)
TimesFrom(a, n, i, carry) ==
    IF i > Limbs THEN <<>>
    ELSE LET s == a[i] * n + carry
         IN  <<s % Base>> \o TimesFrom(a, n, i + 1, s \div Base)

\* long division by a small int d, most significant limb first: the quotient cut off
\* at the grid, and whether anything was cut off
RECURSIVE DivFrom(_, _, _, _)
DivFrom(a, d, i, r) ==
    IF i = 0 THEN [q |-> <<>>, inexact |-> r # 0]
    ELSE LET t == r * Base + a[i]
             rest == DivFrom(a, d, i - 1, t % d)
         IN  [q |-> Append(rest.q, t \div d), inexact |-> rest.inexact]

\* round to nearest, ties to even, at Mantissa significant bits
Round(a, inexact) ==
    LET Bit(i) == (a[((i - 1) \div LimbBits) + 1] \div Pow2((i - 1) % LimbBits)) % 2
        set == {i \in 1..(Limbs * LimbBits) : Bit(i) = 1}
        top == IF set = {} THEN 0 ELSE CHOOSE i \in set : \A j \in set : j <= i
        drop == top - Mantissa
        below == inexact \/ \E i \in 1..(drop - 1) : Bit(i) = 1
        up == Bit(drop) = 1 /\ (below \/ Bit(drop + 1) = 1)
        cleared == [l \in 1..Limbs |->
                      IF l * LimbBits <= drop THEN 0
                      ELSE IF (l - 1) * LimbBits >= drop THEN a[l]
                      ELSE a[l] - (a[l] % Pow2(drop - (l - 1) * LimbBits))]
        ulp == [l \in 1..Limbs |-> IF l = (drop \div LimbBits) + 1
                                   THEN Pow2(drop % LimbBits) ELSE 0]
    IN  IF drop <= 0 THEN a
        ELSE IF up THEN AddFrom(cleared, ulp, 1, 0) ELSE cleared

fadd(a, b) == Round(AddFrom(a, b, 1, 0), FALSE)        \* a + b
fsub(a, b) == Round(SubFrom(a, b, 1, 0), FALSE)        \* a - b, for a >= b
fmul(n, a) == Round(TimesFrom(a, n, 1, 0), FALSE)      \* n * a, n an int
fdiv(a, d) == LET t == DivFrom(a, d, Limbs, 0) IN Round(t.q, t.inexact)   \* a / d, d an int

\* a > b
Greater(a, b) ==
    LET differ == {i \in 1..Limbs : a[i] # b[i]}
        i == CHOOSE k \in differ : \A j \in differ : j <= k
    IN  differ # {} /\ a[i] > b[i]

\* step_weight = 100 / total_steps
step_weight_float == fdiv(FromInt(100), total_steps)

\* current_progress - step_weight + (prog * step_weight / 100), prog an int
SliceProgressFloat(cp, prog) ==
    fadd(fsub(cp, step_weight_float), fdiv(fmul(prog, step_weight_float), 100))

\* the stages of main in order: the setting that enables each, and the int percentages
\* the stage function hands to its progress callback
MainStages ==
    <<[name |-> "deactivate", setting |-> "deactivate_auto_reply", percents |-> {0, 50, 100}],
      [name |-> "sla", setting |-> "set_SLA", percents |-> {0, 50, 75, 100}],
      [name |-> "crawl", setting |-> "crawl_site", percents |-> {}],
      [name |-> "devusers", setting |-> None, percents |-> {0, 20, 100}],
      [name |-> "accounts", setting |-> None, percents |-> {0, 20, 100}],
      [name |-> "revusers", setting |-> None, percents |-> {0, 20, 100}],
      [name |-> "trails", setting |-> None, percents |-> {0, 5, 10, 100}],
      [name |-> "load_stages", setting |-> None, percents |-> {}],
      [name |-> "tickets", setting |-> None, percents |-> {0, 40, 100}],
      [name |-> "issues", setting |-> None, percents |-> {0, 40, 100}],
      [name |-> "opportunities", setting |-> None, percents |-> {0, 30, 100}]>>

Executes(j) ==
    IF MainStages[j].setting = None THEN TRUE ELSE args.settings[MainStages[j].setting]

frame_progress == <<args, calls, written, ld, carried, cleanvars, pollvars>>

\* run_generation and main, reduced to what they do to current_progress and to the
\* progress of the TaskStatus; loc.step is the number of stages main has passed
progress_arithmetic ==
    \/ /\ pc = "thread"
       /\ task_status' = [task_status EXCEPT !.progress = FromInt(5)]
       /\ pc' = "main"
       /\ UNCHANGED <<frame_progress, stage, current_progress, exc, loc>>
    \/ /\ pc = "main"
       /\ current_progress' = FromInt(0)
       /\ task_status' = update("Initializing...", current_progress')
       /\ loc' = [step |-> 0]
       /\ pc' = "main:next"
       /\ UNCHANGED <<frame_progress, stage, exc>>
    \/ /\ pc = "main:next"     \* current_progress += step_weight; the stage header
       /\ loc.step < Len(MainStages)
       /\ Executes(loc.step + 1)
       /\ current_progress' = fadd(current_progress, step_weight_float)
       /\ task_status' = update(MainStages[loc.step + 1].name, current_progress')
       /\ stage' = MainStages[loc.step + 1].name
       /\ loc' = [step |-> loc.step + 1]
       /\ pc' = "main:stage"
       /\ UNCHANGED <<frame_progress, exc>>
    \/ /\ pc = "main:next"     \* the stage's setting is off
       /\ loc.step < Len(MainStages)
       /\ ~Executes(loc.step + 1)
       /\ loc' = [step |-> loc.step + 1]
       /\ UNCHANGED <<frame_progress, pc, stage, current_progress, task_status, exc>>
    \/ /\ pc = "main:stage"    \* the stage reports through main's lambda
       /\ \E prog \in MainStages[loc.step].percents :
             task_status' = update(stage, SliceProgressFloat(current_progress, prog))
       /\ UNCHANGED <<frame_progress, pc, stage, current_progress, exc, loc>>
    \/ /\ pc = "main:stage"    \* the stage returns, or raises
       /\ \/ pc' = "main:next" /\ exc' = exc
          \/ Raise("HTTPError", "main:except")
       /\ UNCHANGED <<frame_progress, stage, current_progress, task_status, loc>>
    \/ /\ pc = "main:next"
       /\ loc.step = Len(MainStages)
       /\ task_status' = update("All operations completed successfully", FromInt(100))
       /\ pc' = "main:returned"
       /\ UNCHANGED <<frame_progress, stage, current_progress, exc, loc>>
    \/ /\ pc = "main:except"
       /\ task_status' = update("Error: " \o exc, current_progress)
       /\ pc' = "main:raised"
       /\ UNCHANGED <<frame_progress, stage, current_progress, exc, loc>>
    \/ /\ pc = "main:returned"
       /\ task_status' = [task_status EXCEPT !.progress = FromInt(100), !.complete = TRUE]
       /\ pc' = "thread:end"
       /\ UNCHANGED <<frame_progress, stage, current_progress, exc, loc>>

InitProgress ==
    /\ pc = "thread"
    /\ stage = "init"
    /\ args \in {r \in Requests : /\ r.company_url # "" /\ r.support_url # ""
                                  /\ r.max_tickets = 2 /\ r.max_issues = 2}
    /\ task_status = [TaskStatus EXCEPT !.progress = FromInt(0)]
    /\ current_progress = FromInt(0)
    /\ exc = None
    /\ calls = <<>>
    /\ written = NoFiles
    /\ loc = [step |-> 0]
    /\ dev_user_ids = <<>>
    /\ accounts = <<>>
    /\ parts = <<>>
    /\ stages = {}
    /\ ld = NoFrame
    /\ cleanup_status = NoCleanup
    /\ base_progress = Q(0)
    /\ now = 0
    /\ InitWeb

NextProgress == progress_arithmetic

SpecProgress == InitProgress /\ [][NextProgress]_vars

\* the number of stages executed so far, the one in progress included
Executed == Cardinality({j \in 1..loc.step : Executes(j)})

\* C12: no value reported while the k-th executed stage runs exceeds k * (100 / 11), and
\* every progress value stored in the TaskStatus lies in [0, 100].
C12_WithinSliceAndRange ==
    /\ pc = "main:stage" =>
          ~Greater(task_status.progress, fmul(Executed, step_weight_float))
    /\ ~Greater(task_status.progress, FromInt(100))

----------------------------------------------------------------------------
(* A configuration step called twice in a row on the same org, as two          *)
(* provisioning runs with its setting on call it                                *)

SnapInLists == {k \in DOMAIN calls : calls[k].ep = "snap-ins.list"}
SnapInDeactivations == {k \in DOMAIN calls : calls[k].ep = "snap-ins.deactivate"}

SlaCreations == {k \in DOMAIN calls : calls[k].ep = "slas.create"}
SlaTransitions == {k \in DOMAIN calls : calls[k].ep = "slas.transition"}

\* the first call has returned (set_default_sla: having published the SLA): the next run
\* calls the step again
call_again ==
    /\ \/ /\ pc = "main:72"
          /\ stage = "deactivate"
          /\ stage' = "deactivate again"
          /\ pc' = "deact:28"
       \/ /\ pc = "main:90"
          /\ stage = "sla"
          /\ task_status.status = "SLA configuration completed successfully"
          /\ stage' = "sla again"
          /\ pc' = "sla:117"
    /\ UNCHANGED <<args, task_status, current_progress, exc, calls, written, loc, carried, ld,
                   cleanvars, pollvars>>

InitTwice ==
    /\ \/ pc = "deact:28" /\ stage = "deactivate" /\ loc = [snap_in |-> NoSnapIn]
       \/ pc = "sla:117" /\ stage = "sla" /\ loc = [sla_id |-> None]
    /\ args \in {r \in Requests : /\ r.settings.deactivate_auto_reply /\ r.settings.set_SLA
                                  /\ r.company_url # "" /\ r.support_url # ""
                                  /\ r.max_tickets = 2 /\ r.max_issues = 2}
    /\ task_status = [TaskStatus EXCEPT !.status = "Deactivating auto-reply snap-in...",
                                        !.progress = step_weight]
    /\ current_progress = step_weight
    /\ exc = None
    /\ calls = <<>>
    /\ written = NoFiles
    /\ dev_user_ids = <<>>
    /\ accounts = <<>>
    /\ parts = <<>>
    /\ stages = {}
    /\ ld = NoFrame
    /\ cleanup_status = NoCleanup
    /\ base_progress = Q(0)
    /\ now = 0
    /\ InitWeb

NextTwice ==
    \/ deactivate_auto_reply_snapin
    \/ set_default_sla
    \/ call_again

SpecTwice == InitTwice /\ [][NextTwice]_vars

\* the second call has its list answer, and the answer shows the snap-in inactive
C13_SecondSeesInactive ==
    /\ stage = "deactivate again"
    /\ pc \notin {"deact:28", "deact:33", "deact:except", "main:except"}
    /\ loc.snap_in.found
    /\ ~loc.snap_in.is_active \/ loc.snap_in.state = "disabled"

\* C13: when the second of two calls in a row is shown the snap-in inactive by its list
\* call, it issues no deactivate call (the two calls issue at most one, the first call's),
\* raises nothing and returns True through the "already inactive" exit, as the first call
\* returned without raising.
C13_SecondCallIsNoOp ==
    C13_SecondSeesInactive =>
       /\ \A k \in SnapInDeactivations : \E j \in SnapInLists : k < j
       /\ Cardinality(SnapInDeactivations) <= 1
       /\ exc = None
       /\ pc \in {"deact:44", "deact:57", "main:72"}
       /\ pc = "main:72" => task_status.status = "Auto-reply snap-in is already inactive"

C13_Witness ==
    /\ C13_SecondSeesInactive
    /\ pc = "main:72"
    /\ Cardinality(SnapInLists) = 2
    /\ Cardinality(SnapInDeactivations) = 1
    /\ calls[2].ep = "snap-ins.deactivate"

\* C14: a call of set_default_sla that finds the default SLA on the platform (here: the
\* call before it created and published it) issues no slas.create and no slas.transition
\* call, raises nothing and leaves the pipeline to continue.
C14_SlaStepIdempotent ==
    stage = "sla again" =>
       /\ Cardinality(SlaCreations) <= 1
       /\ Cardinality(SlaTransitions) <= 1
       /\ exc = None

----------------------------------------------------------------------------
(* Further claims about the provisioning run *)

Crawls == {k \in DOMAIN calls : calls[k].ep = "web-crawler-jobs.create"}

\* the crawl-start calls the request asks for
C15_ExpectedCrawls ==
    (IF args.company_url # ""
     THEN <<[ep |-> "web-crawler-jobs.create",
             payload |-> [url |-> args.company_url, max_depth |-> 2]]>>
     ELSE <<>>)
    \o (IF args.support_url # ""
        THEN <<[ep |-> "web-crawler-jobs.create",
                payload |-> [url |-> args.support_url, max_depth |-> 4]]>>
        ELSE <<>>)

C15_CrawlState ==
    stage = "crawl" =>
       /\ exc = None
       /\ pc \in {"crawl:96", "crawl:101", "main:108"}
       /\ Crawls = DOMAIN calls
       /\ pc = "main:108" => calls = C15_ExpectedCrawls

\* C15: whatever a crawl-start call answers, start_web_scrape hands main a job id or
\* None and raises nothing; main issues nothing but the crawl-start calls, one for the
\* company URL and one for the support URL when that is given, and goes on to
\* create_devusers.
C15_CrawlNeverAborts ==
    /\ []C15_CrawlState
    /\ [][(pc \in {"crawl:96", "crawl:101"}) =>
             (pc' \in {"crawl:101", "main:108"} /\ exc' = None)]_vars
    /\ [][(pc = "main:108") => (stage' = "devusers" /\ pc' = "devusers:185")]_vars

C15_Witness ==
    /\ stage = "crawl"
    /\ pc = "main:108"
    /\ Cardinality(Crawls) = 2
    /\ loc.company_job = None
    /\ loc.kb_job = "job/2"

----------------------------------------------------------------------------
(* Further claims about a run and its poller *)

\* C16: a poll served within 300 seconds of the last update of the run's TaskStatus
\* reports no timeout: neither its error nor its status is the timeout message (a poll
\* served later than that sets both, and the background unit runs on).
C16_TimeoutOnlyWhenStale ==
    (now - task_status.last_update <= poll_timeout) =>
       /\ response_data(task_status).error # "Operation timed out"
       /\ response_data(task_status).status # "Error: Operation timed out"

----------------------------------------------------------------------------
(* main.py: the session directory after the run: download, deletion timer, hourly sweep *)

frame_thread == <<pc, stage, args, task_status, current_progress, exc, calls, loc, carried,
                  ld, cleanvars>>

SessionIds == {session_id, "other"}    \* "other" was never issued by a POST handler

session_assumed(id) == TRUE
session_found(id) == session_exists(id)

\* download_session(session_id), lines 258-290: 404, or the zip of the directory's files
download_session ==
    \E id \in SessionIds :
        /\ http_response' = IF ~session_found(id)
                            THEN [request |-> id, code |-> 404,
                                  body |-> "Session not found"]
                            ELSE [request |-> id, code |-> 200, body |-> "zip"]
        /\ UNCHANGED <<frame_thread, written, now, tasks, session_dirs, timers, unitvars>>

\* shutil.rmtree(session_path): the directory and every file in it are gone
rmtree(id) ==
    /\ session_dirs' = [session_dirs EXCEPT ![id] = [exists |-> FALSE, mtime |-> now]]
    /\ written' = IF id = session_id THEN NoFiles ELSE written
    /\ files' = {f \in files : f.base # SessionPath(id)}

\* cleanup_session_files(session_id), lines 56-61, run by the Timer of a finished run
cleanup_session_files ==
    \E i \in DOMAIN timers :
        /\ ~timers[i].fired
        /\ now >= timers[i].due
        /\ timers' = [timers EXCEPT ![i].fired = TRUE]
        /\ IF session_exists(timers[i].session)
           THEN rmtree(timers[i].session)
           ELSE UNCHANGED <<session_dirs, written, files>>
        /\ UNCHANGED <<frame_thread, now, tasks, http_response, units, threads>>

max_age == 3600

\* a directory made again by a save is taken to be as old as the removal before it
old_sessions == {id \in DOMAIN session_dirs :
                    session_exists(id) /\ now - session_dirs[id].mtime > max_age}

\* cleanup_old_sessions(), lines 292-303: one pass of the loop that removes something
cleanup_old_sessions ==
    /\ old_sessions # {}
    /\ session_dirs' = [id \in DOMAIN session_dirs |->
                          IF id \in old_sessions THEN [exists |-> FALSE, mtime |-> now]
                          ELSE session_dirs[id]]
    /\ written' = IF session_id \in old_sessions THEN NoFiles ELSE written
    /\ files' = {f \in files : \A id \in old_sessions : f.base # SessionPath(id)}
    /\ UNCHANGED <<frame_thread, now, tasks, timers, http_response, units, threads>>

MaxSleeps == 2

\* time.sleep(3600), line 303: an hour passes
sleep ==
    /\ now < MaxSleeps * max_age
    /\ now' = now + max_age
    /\ UNCHANGED <<frame_thread, written, webvars>>

NextSessions ==
    \/ NextCleanup
    \/ download_session
    \/ cleanup_session_files
    \/ cleanup_old_sessions
    \/ sleep

SpecSessions == InitCleanup /\ [][NextSessions]_vars

----------------------------------------------------------------------------
(* Claims about the session directory *)

\* C17: a download for a session id whose directory does not exist (never made, or already
\* removed by the hourly sweep or by the run's timer) answers 404 'Session not found' and
\* changes nothing: neither the directory nor a registry entry comes into being.
C17_MissingSessionNotFound ==
    [][(http_response' # http_response /\ ~session_exists(http_response'.request)) =>
          /\ http_response'.code = 404
          /\ http_response'.body = "Session not found"
          /\ UNCHANGED <<session_dirs, written, tasks, timers, task_status>>]_vars

C17_Witness ==
    /\ http_response = [request |-> session_id, code |-> 404, body |-> "Session not found"]
    /\ session_id \in DOMAIN session_dirs
    /\ ~session_exists(session_id)
    /\ \E i \in DOMAIN timers : timers[i].fired

RunEnded == pc \in {"thread:end", "cleanup:end"}

\* C18: every run, provisioning or cleanup, ended in success or in error, has scheduled
\* exactly one delayed deletion, of its own session directory, and schedules it only after
\* its pipeline has finished, never while stages are still executing.
C18_OneTimerAfterPipeline ==
    /\ [](IF RunEnded
          THEN /\ Len(timers) = 1
               /\ timers[1].session = session_id
               /\ timers[1].due >= delete_delay
          ELSE timers = <<>>)
    /\ [][timers' # timers =>
             /\ pc \in {"thread:finally", "cleanup:finally"}
             /\ task_status.complete \/ task_status.error # None
             /\ RunEnded']_vars

C18_Witness ==
    /\ pc = "thread:end"
    /\ task_status.error # None
    /\ ~task_status.complete
    /\ Len(timers) = 1
    /\ stage = "tickets"

----------------------------------------------------------------------------
(* utils.py: the directory save_payload_to_file stores an artifact in *)

\* An artifact name is the sequence of its words, each but the first with its underscore:
\* "cleanup_status_responses" is <<"cleanup", "_status", "_responses">>.
Stems == {<<"devusers">>, <<"accounts">>, <<"revusers">>, <<"trails">>, <<"parts">>,
          <<"tickets">>, <<"issues">>, <<"opportunities">>, <<"works">>,
          <<"cleanup", "_status">>}
Endings == {"_responses", "_processed", "_existing", "_failed", "_gpt", "_loaded"}
ObjectPayloads == Stems \cup {Append(s, e) : s \in Stems, e \in Endings}

\* the list of line 21
output_suffixes == {"_responses", "_processed", "_existing", "_failed"}

\* any(suffix in object_payload for suffix in [...]): a substring test; no word of a name
\* contains another, so a suffix is in the name exactly when it is one of its words
any_suffix_in(object_payload) ==
    \E i \in DOMAIN object_payload : object_payload[i] \in output_suffixes

\* lines 19-35: session directory or the default one, then the subdirectory, then the file
output_file(object_payload, session_path) ==
    [base |-> IF session_path # None THEN session_path ELSE ".",
     directory |-> IF any_suffix_in(object_payload) THEN "output_files" ELSE "input_files",
     file |-> object_payload]

frame_save == <<stage, args, task_status, current_progress, exc, calls, written, carried,
                ld, cleanvars, pollvars>>

\* one call of save_payload_to_file, and the caller's next call of it
save_payload ==
    \/ /\ pc = "save:18"
       /\ loc' = [loc EXCEPT !.output_file =
                      output_file(loc.object_payload, loc.session_path)]
       /\ pc' = "save:45"
       /\ UNCHANGED frame_save
    \/ /\ pc = "save:45"
       /\ \E object_payload \in ObjectPayloads, session_path \in {None, "sessions/id"} :
              loc' = [object_payload |-> object_payload, session_path |-> session_path,
                      output_file |-> None]
       /\ pc' = "save:18"
       /\ UNCHANGED frame_save

InitSave ==
    /\ pc = "save:18"
    /\ stage = "init"
    /\ loc \in [object_payload : ObjectPayloads, session_path : {None, "sessions/id"},
                output_file : {None}]
    /\ args \in {r \in Requests : /\ r.settings.deactivate_auto_reply /\ r.settings.set_SLA
                                  /\ r.settings.crawl_site
                                  /\ r.company_url # "" /\ r.support_url # ""
                                  /\ r.max_tickets = 2 /\ r.max_issues = 2}
    /\ task_status = TaskStatus
    /\ current_progress = Q(0)
    /\ exc = None
    /\ calls = <<>>
    /\ written = NoFiles
    /\ dev_user_ids = <<>>
    /\ accounts = <<>>
    /\ parts = <<>>
    /\ stages = {}
    /\ ld = NoFrame
    /\ cleanup_status = NoCleanup
    /\ base_progress = Q(0)
    /\ now = 0
    /\ InitWeb

NextSave == save_payload

SpecSave == InitSave /\ [][NextSave]_vars

claimed_suffixes == output_suffixes \cup {"_gpt"}

\* C19: an artifact is stored in output_files/ exactly when its name ends in _responses,
\* _processed, _existing, _failed or _gpt, and in input_files/ otherwise; so trails_gpt,
\* tickets_gpt and issues_gpt are stored in output_files/.
C19_OutputExactlyForSuffixes ==
    (pc = "save:45" /\ loc.session_path # None) =>
        LET name == loc.object_payload
        IN  /\ loc.output_file.directory \in {"output_files", "input_files"}
            /\ loc.output_file.directory = "output_files"
                  <=> name[Len(name)] \in claimed_suffixes

----------------------------------------------------------------------------
(* Claims about the artifacts of a provisioning run *)

Contents(name) == IF name \in DOMAIN written
                  THEN {written[name][k] : k \in DOMAIN written[name]} ELSE {}

\* the artifacts of a stage that save_payload_to_file puts under input_files/ and under
\* output_files/, by the stage's create endpoint
InputArtifact(ep) ==
    CASE ep = "dev-users.create" -> "devusers"
      [] ep = "accounts.create" -> "accounts"
      [] ep = "rev-users.create" -> "revusers"
      [] OTHER -> None

OutputArtifact(s) ==
    CASE s = "devusers" -> "devusers_responses"
      [] s = "accounts" -> "accounts_responses"
      [] s = "revusers" -> "revusers_responses"
      [] OTHER -> None

\* every payload the last stage passed to its create call is in the stage's input artifact
C20_PayloadsSaved ==
    \A i \in DOMAIN calls :
        InputArtifact(calls[i].ep) # None =>
            calls[i].payload \in Contents(InputArtifact(calls[i].ep))

\* every response the last stage received from its create call is in its output artifact
C20_ResponsesSaved ==
    (OutputArtifact(stage) # None /\ "responses" \in DOMAIN loc) =>
        \A k \in DOMAIN loc.responses : loc.responses[k] \in Contents(OutputArtifact(stage))

\* C20: after a provisioning run, successful or aborted, every payload passed to a create
\* call is in an artifact of the input directory and every response received for such a
\* call is in an artifact of the output directory.
C20_CreateCallsRecorded ==
    pc = "thread:end" => C20_PayloadsSaved /\ C20_ResponsesSaved

----------------------------------------------------------------------------
(* GPT.py: prompt_gpt_for_tickets and prompt_gpt_for_issues on their own, for three parts
   and replies of up to two elements *)

ReplyItems == 2

ItemParts == [k \in 1..3 |-> [name |-> "part" \o ToString(k), id |-> "part/" \o ToString(k),
                              type |-> "feature", owned_by |-> "devu/2"]]

InitItems ==
    /\ \E kind \in {"tickets", "issues"} : pc = At(kind, "gpt:127") /\ stage = kind
    /\ args \in {r \in Requests : /\ r.company_url # "" /\ r.support_url = ""
                                  /\ r.max_tickets = r.max_issues
                                  /\ r.settings = [deactivate_auto_reply |-> FALSE,
                                                   set_SLA |-> FALSE, crawl_site |-> FALSE]}
    /\ current_progress = Times(Q(5), step_weight)
    /\ task_status = [TaskStatus EXCEPT !.progress = Times(Q(4), step_weight),
                                        !.status = "Preparing to generate content...",
                                        !.session_dir = "sessions/id"]
    /\ exc = None
    /\ calls = <<>>
    /\ written = NoFiles
    /\ loc = WorkLocals
    /\ dev_user_ids = <<"devu/2">>
    /\ accounts = <<>>
    /\ parts = ItemParts
    /\ stages = {"queued", "triage"}
    /\ ld = NoFrame
    /\ cleanup_status = NoCleanup
    /\ base_progress = Q(0)
    /\ now = 0
    /\ InitWeb

NextItems ==
    \/ prompt_gpt_for_items("tickets", ReplyItems)
    \/ prompt_gpt_for_items("issues", ReplyItems)

SpecItems == InitItems /\ [][NextItems]_vars

ItemKinds == {"tickets", "issues"}

\* the items a reply contributes when it is a JSON array of objects: each with its part
ExpectedItems(kind, reply, part) ==
    IF reply.parses /\ \A k \in DOMAIN reply.items : reply.items[k] \in ItemStages(kind)
    THEN [k \in DOMAIN reply.items |-> [stage |-> reply.items[k], applies_to_part |-> part]]
    ELSE <<>>

PartAndStage(items) ==
    [k \in DOMAIN items |-> [stage |-> items[k].stage,
                             applies_to_part |-> items[k].applies_to_part]]

\* C21: a part whose completion is not a JSON array of objects contributes no items, the
\* function does not raise and goes on to the next part; the list returned and saved is
\* the concatenation, in part order, of the items of the parts whose reply parsed, each
\* tagged with its part.
C21_UnparsedPartSkipped ==
    /\ [][\A kind \in ItemKinds :
            (pc = At(kind, "gpt:142") /\ calls' # calls /\ exc' = exc) =>
                /\ loc'.part = loc.part + 1
                /\ calls'[Len(calls')].payload.part = parts[loc'.part].name
                /\ pc' \in {At(kind, "gpt:142"), At(kind, "gpt:204")}
                /\ PartAndStage(loc'.items) =
                      PartAndStage(loc.items) \o
                      ExpectedItems(kind, loc'.reply, parts[loc'.part].name)]_vars
    /\ [](\A kind \in ItemKinds :
            pc = At(kind, "685") =>
                /\ loc.part = Len(parts)
                /\ exc = None
                /\ written[kind \o "_gpt"] = loc.items)

C21_Witness ==
    /\ pc = At("tickets", "685")
    /\ Len(loc.items) = 2
    /\ loc.items[1].applies_to_part = "part1"
    /\ loc.items[2].applies_to_part = "part2"
    /\ loc.reply.parses
    /\ loc.reply.items = <<"queued", NotAnObject>>
    /\ written["tickets_gpt"] = loc.items

----------------------------------------------------------------------------
(* Claims about create_opportunities_payload *)

\* C22: the payload holds one base opportunity per account, then exactly one Upsell for
\* each base opportunity in stage closed_won and none for any other; an Upsell has the
\* account and owner of its base and a stage in {negotiation, contract}, and spawns no
\* further Upsell.
C22_OneUpsellPerClosedWon ==
    pc = "opps:888" =>
        LET ops == loc.items
            n == IF ops = <<>> THEN 0 ELSE Len(accounts)
            won == {k \in 1..n : ops[k].stage = "stage/closed_won"}
            upsells == (n + 1)..Len(ops)
            IsUpsellOf(j, k) == /\ ops[j].title = ops[k].title \o " - Upsell"
                                /\ ops[j].account = ops[k].account
                                /\ ops[j].owned_by = ops[k].owned_by
        IN  /\ Len(ops) = n + Cardinality(won)
            /\ \A k \in 1..n : /\ ops[k].title = accounts[k].name
                               /\ ops[k].account = accounts[k].id
            /\ \A j \in upsells : /\ ops[j].stage \in {"stage/negotiation", "stage/contract"}
                                  /\ \E k \in won : IsUpsellOf(j, k)
            /\ \A k \in won : Cardinality({j \in upsells : IsUpsellOf(j, k)}) = 1

C22_Witness ==
    /\ pc = "opps:888"
    /\ Len(accounts) = 2
    /\ Len(loc.items) = 3
    /\ loc.items[1].stage = "stage/closed_lost"
    /\ loc.items[2].stage = "stage/closed_won"
    /\ loc.items[3].title = accounts[2].name \o " - Upsell"

----------------------------------------------------------------------------
(* devrev_objects.py: load_objects on its own, against endpoints that hold up to
   MaxListed objects and serve them in pages of one to three objects *)

MaxListed == 5
PageSizes == 1..3

Listed(object_type) ==
    {[k \in 1..n |-> [id |-> object_type \o "/" \o ToString(k)]] : n \in 0..MaxListed}

InitLoad ==
    /\ pc = "load:50"
    /\ stage = "init"
    /\ \E object_type \in {"works", "stages.custom"}, save \in BOOLEAN :
           ld = LoadFrame(object_type, save, "load:returned", "load:raised")
    /\ args \in {r \in Requests : /\ r.company_url = "" /\ r.support_url = ""
                                  /\ r.max_tickets = 0 /\ r.max_issues = 0
                                  /\ r.settings = [deactivate_auto_reply |-> FALSE,
                                                   set_SLA |-> FALSE, crawl_site |-> FALSE]}
    /\ task_status = TaskStatus
    /\ current_progress = Q(0)
    /\ exc = None
    /\ calls = <<>>
    /\ written = NoFiles
    /\ loc = NoFrame
    /\ dev_user_ids = <<>>
    /\ accounts = <<>>
    /\ parts = <<>>
    /\ stages = {}
    /\ cleanup_status = NoCleanup
    /\ base_progress = Q(0)
    /\ now = 0
    /\ InitWeb

NextLoad == load_pages(Listed(ld.object_type), PageSizes)

SpecLoad == InitLoad /\ [][NextLoad]_vars

\* C23: load_objects terminates and returns the objects of every page once, in page
\* order; it asks for each page once, with the cursor the page before returned, and stops
\* when an answer has no further cursor; a non-2xx answer on any page raises and yields
\* no result.
C23_EveryPageOnce ==
    /\ [][(pc = "load:50" /\ calls' # calls) =>
             /\ calls' = Append(calls, [ep |-> ld.object_type \o ".list",
                                        payload |-> ld.cursor])
             /\ \A i \in DOMAIN calls : calls[i].payload # ld.cursor
             /\ IF exc' # exc
                THEN pc' = "load:raised" /\ ld' = NoFrame
                ELSE /\ pc' = "load:50"
                     /\ Len(ld'.objects) <= Len(ld'.remote)
                     /\ ld'.objects = SubSeq(ld'.remote, 1, Len(ld'.objects))
                     /\ (ld'.cursor = "end") = (ld'.objects = ld'.remote)]_vars
    /\ [](pc = "load:returned" =>
             /\ ld.objects = ld.remote
             /\ Len(calls) >= 1
             /\ Len(calls) <= Len(ld.remote) + 1
             /\ calls[1].payload = "")

C23_Witness ==
    /\ pc = "load:returned"
    /\ Len(ld.objects) = 5
    /\ Len(calls) = 3
    /\ calls[2].payload = "2"
    /\ calls[3].payload = "3"

----------------------------------------------------------------------------
(* main.py: several runs in flight. Each POST issues a session id, registers a TaskStatus
   under it and starts a background unit whose closure holds that TaskStatus and the id.
   The registry entry and the closure hold the same object; it is kept in the unit. The
   pipeline of a unit is reduced to what it does to its TaskStatus and to the files. *)

RunIds == {"a", "b"}          \* the uuid4 values the server can issue
MaxUnitSteps == 2             \* reports and saves of one pipeline

\* the request body: the PAT as characters, or no PAT
Bodies == [has_pat : {TRUE}, pat : {<<"e", "y", "J">>, <<"e">>, <<"p", "a", "t">>}]
             \cup [has_pat : {FALSE}, pat : {<<>>}]

startswith(str, prefix) ==
    Len(str) >= Len(prefix) /\ SubSeq(str, 1, Len(prefix)) = prefix

\* a decorator that tests only that the credential is there
auth_error_if_absent(body) ==
    IF ~body.has_pat THEN "DevOrg PAT is required" ELSE None

\* requires_auth, lines 63-78: None when the request passes
auth_error(body) ==
    IF ~body.has_pat THEN "DevOrg PAT is required"
    ELSE IF ~startswith(body.pat, <<"e", "y">>)
         THEN "Invalid PAT format. DevRev PAT should start with \"ey\""
         ELSE None

frame_server == <<frame_thread, written>>

\* a handler that answers without the assignment of line 103
setitem_skipped(registry, sid) == registry

\* tasks[session_id] = task_status, lines 103 and 190: the keys afterwards
setitem(registry, sid) == registry \cup {sid}

\* POST /api/generate and POST /api/cleanup on a server whose uuid4 gives one of ids
post_with(ids, kind, body) ==
    /\ IF auth_error(body) # None
       THEN /\ http_response' = [request |-> kind, code |-> 400, body |-> auth_error(body)]
            /\ UNCHANGED <<tasks, units>>
       ELSE \E sid \in ids \ tasks :
              /\ tasks' = setitem(tasks, sid)
              /\ units' = [id \in DOMAIN units \cup {sid} |->
                             IF id = sid
                             THEN [kind |-> kind, steps |-> 0,
                                   pc |-> IF kind = "generate" THEN "thread" ELSE "cleanup",
                                   task_status |-> [TaskStatus EXCEPT !.last_update = now]]
                             ELSE units[id]]
              /\ http_response' = [request |-> kind, code |-> 200, body |-> sid]
    /\ UNCHANGED <<frame_server, now, session_dirs, timers, files, threads>>

post(ids) == \E kind \in {"generate", "cleanup"}, body \in Bodies : post_with(ids, kind, body)

post_run == post(RunIds)

shared_path(sid) == None
\* the session_path the unit hands to its pipeline: task_status.session_dir
unit_session_path(sid) == units[sid].task_status.session_dir

UnitArtifacts == {<<"devusers">>, <<"devusers", "_responses">>}

Becomes(sid, unit) == units' = [units EXCEPT ![sid] = unit]

\* one step of the background unit of session sid: run_generation or run_cleanup
unit_step(sid) ==
    LET u == units[sid]
        ts == u.task_status
    IN  /\ \/ /\ u.pc = "thread"
              /\ Becomes(sid, [u EXCEPT !.pc = "thread:114",
                                 !.task_status.status = "Starting content generation...",
                                 !.task_status.progress = Q(5)])
              /\ UNCHANGED <<session_dirs, timers, files>>
           \/ /\ u.pc \in {"thread:114", "cleanup"}
              /\ mkdirs(sid)
              /\ Becomes(sid, [u EXCEPT !.pc = IF u.kind = "generate" THEN "main"
                                               ELSE "cleanup:199",
                                 !.task_status.session_dir = SessionPath(sid)])
              /\ UNCHANGED <<timers, files>>
           \/ /\ u.pc = "cleanup:199"
              /\ Becomes(sid, [u EXCEPT !.pc = "main",
                                 !.task_status.status = "Starting cleanup...",
                                 !.task_status.progress = Q(10)])
              /\ UNCHANGED <<session_dirs, timers, files>>
           \/ /\ u.pc = "main"      \* progress_callback(status, progress)
              /\ u.steps < MaxUnitSteps
              /\ Becomes(sid, [u EXCEPT !.steps = @ + 1,
                                 !.task_status.status = "Working...",
                                 !.task_status.progress = Q(20 * (u.steps + 1)),
                                 !.task_status.last_update = now])
              /\ UNCHANGED <<session_dirs, timers, files>>
           \/ /\ u.pc = "main"      \* save_payload_to_file(payload, name, session_path)
              /\ u.steps < MaxUnitSteps
              /\ \E name \in UnitArtifacts :
                    files' = files \cup {output_file(name, unit_session_path(sid))}
              /\ Becomes(sid, [u EXCEPT !.steps = @ + 1])
              /\ UNCHANGED <<session_dirs, timers>>
           \/ /\ u.pc = "main"      \* the pipeline returns
              /\ Becomes(sid, [u EXCEPT !.pc = "finally",
                                 !.task_status.progress = Q(100),
                                 !.task_status.status =
                                     IF u.kind = "generate"
                                     THEN "Content generation completed successfully"
                                     ELSE "Cleanup completed successfully",
                                 !.task_status.complete = TRUE])
              /\ UNCHANGED <<session_dirs, timers, files>>
           \/ /\ u.pc = "main"      \* the pipeline raises
              /\ Becomes(sid, [u EXCEPT !.pc = "finally",
                                 !.task_status.error = "HTTPError",
                                 !.task_status.status = "Error: HTTPError"])
              /\ UNCHANGED <<session_dirs, timers, files>>
           \/ /\ u.pc = "finally"
              /\ timers' = Append(timers, Timer(sid))
              /\ Becomes(sid, [u EXCEPT !.pc = "end"])
              /\ UNCHANGED <<session_dirs, files>>
        /\ UNCHANGED <<frame_server, now, tasks, http_response, threads>>

background_unit == \E sid \in DOMAIN units : unit_step(sid)

\* GET /api/progress/<session_id>, lines 234-255, for an id of ids
poll(ids) ==
    \E sid \in ids :
        /\ IF sid \notin tasks
           THEN /\ http_response' = [request |-> sid, code |-> 404,
                                     body |-> "Invalid session ID"]
                /\ UNCHANGED units
           ELSE LET ts == units[sid].task_status
                    seen == IF now - ts.last_update > poll_timeout
                            THEN [ts EXCEPT !.error = "Operation timed out",
                                            !.status = "Error: Operation timed out"]
                            ELSE ts
                IN  /\ units' = [units EXCEPT ![sid].task_status = seen]
                    /\ http_response' = [request |-> sid, code |-> 200,
                                         body |-> response_data(seen)]
        /\ UNCHANGED <<frame_server, now, tasks, session_dirs, timers, files, threads>>

InitRuns ==
    /\ pc = "server"
    /\ stage = "init"
    /\ args \in {r \in Requests : /\ r.company_url = "" /\ r.support_url = ""
                                  /\ r.max_tickets = 0 /\ r.max_issues = 0
                                  /\ r.settings = [deactivate_auto_reply |-> FALSE,
                                                   set_SLA |-> FALSE, crawl_site |-> FALSE]}
    /\ task_status = TaskStatus
    /\ current_progress = Q(0)
    /\ exc = None
    /\ calls = <<>>
    /\ written = NoFiles
    /\ loc = NoFrame
    /\ dev_user_ids = <<>>
    /\ accounts = <<>>
    /\ parts = <<>>
    /\ stages = {}
    /\ ld = NoFrame
    /\ cleanup_status = NoCleanup
    /\ base_progress = Q(0)
    /\ now = 0
    /\ tasks = {}
    /\ session_dirs = [id \in {} |-> 0]
    /\ timers = <<>>
    /\ http_response = NoReply
    /\ units = [id \in {} |-> NoFrame]
    /\ files = {}
    /\ threads = [t \in {} |-> NoFrame]

NextRuns ==
    \/ post_run
    \/ background_unit

SpecRuns == InitRuns /\ [][NextRuns]_vars

InFlight(sid) == sid \in DOMAIN units /\ units[sid].pc # "end"

FilesOf(fs, sid) == {f \in fs : f.base = SessionPath(sid)}

\* C24: while two runs are in flight, a step of one run's background unit writes only
\* that run's TaskStatus and only into that run's session directory; the other run's
\* TaskStatus and directory stay as they are.
C24_RunsIsolated ==
    [][\A sid \in DOMAIN units :
          (units'[sid].pc # units[sid].pc \/ units'[sid].steps # units[sid].steps) =>
              /\ files' \ files \subseteq FilesOf(files', sid)
              /\ files \subseteq files'
              /\ tasks' = tasks
              /\ \A other \in DOMAIN units \ {sid} :
                    /\ units'[other] = units[other]
                    /\ other \in DOMAIN session_dirs =>
                          /\ other \in DOMAIN session_dirs'
                          /\ session_dirs'[other] = session_dirs[other]
                    /\ other \notin DOMAIN session_dirs => other \notin DOMAIN session_dirs']_vars

C24_Witness ==
    /\ InFlight("a") /\ InFlight("b")
    /\ units["a"].kind = "generate" /\ units["b"].kind = "cleanup"
    /\ units["a"].task_status.status = "Working..."
    /\ units["b"].task_status.error = "HTTPError"
    /\ FilesOf(files, "a") # {} /\ FilesOf(files, "b") # {}
    /\ files = FilesOf(files, "a") \cup FilesOf(files, "b")

\* one run on the server with its pollers, its deletion timers and its hourly sweep
NextServer ==
    \/ post({"a"})
    \/ background_unit
    \/ poll({"a", "other"})
    \/ cleanup_session_files
    \/ cleanup_old_sessions
    \/ sleep

SpecServer == InitRuns /\ [][NextServer]_vars

\* the threads run, the timers fire, the sweep runs and time passes
SpecServerFair ==
    /\ SpecServer
    /\ WF_vars(background_unit)
    /\ WF_vars(cleanup_session_files)
    /\ WF_vars(cleanup_old_sessions)
    /\ WF_vars(sleep)

Removed(sid) == sid \in DOMAIN session_dirs /\ ~session_exists(sid)

\* C25: no run and no poll removes a key from the registry, and the registry is collected
\* with the sessions: once the session directory of a run has been removed, the run's key
\* is eventually no longer in the registry.
C25_KeyCollectedAfterSweep ==
    /\ [][tasks \subseteq tasks']_vars
    /\ \A sid \in {"a"} : [](Removed(sid) => <>(sid \notin tasks))

----------------------------------------------------------------------------
(* Claims about the progress of a failing run *)

StageExceptPcs == {"devusers:except", "accounts:except", "revusers:except", "trails:except",
                   At("tickets", "except"), At("issues", "except"), "opps:except"}

\* C26: when a provisioning stage fails, neither the stage's own error report nor main's
\* final "Error:" report publishes a progress value other than the last one reported
\* before the failure, and main re-raises.
C26_FailureFreezesProgress ==
    [][/\ (pc \in StageExceptPcs \cup {"main:except"}) =>
             task_status'.progress = task_status.progress
       /\ (pc = "main:except") => (pc' = "main:raised" /\ exc' = exc /\ exc # None)]_vars

----------------------------------------------------------------------------
(* Claims about what a poller observes *)

\* what str(e) can be in a run, and what follows "Error: " in a status
Messages == {"APIError", "GPT failed to return a response after 3 attempts", "HTTPError",
             "IndexError", "KeyError", "ValueError", "Operation timed out"}
ErrorTexts == Messages \cup {"Error managing auto-reply snap-in: " \o m : m \in Messages}
                       \cup {"Error configuring SLA: " \o m : m \in Messages}

BeginsWithError(status) == \E m \in ErrorTexts : status = "Error: " \o m

\* C27: in every state a poller can observe, under any interleaving of polls with the
\* writes of the background unit, the error of the TaskStatus is set only if its status
\* begins with "Error:".
C27_ErrorImpliesErrorStatus ==
    response_data(task_status).error # None =>
        BeginsWithError(response_data(task_status).status)

----------------------------------------------------------------------------
(* main.py: a download, the run's deletion timer and the hourly sweep on one directory *)

Subdirs == <<"input_files", "output_files">>

\* what a finished run has left under sessions/<session_id>
SessionContents == {[base |-> SessionPath(session_id), directory |-> "input_files",
                     file |-> <<"devusers">>],
                    [base |-> SessionPath(session_id), directory |-> "output_files",
                     file |-> <<"devusers", "_responses">>]}

Under(sid) == {f \in files : f.base = SessionPath(sid)}
InDir(sid, d) == {f \in Under(sid) : f.directory = d}

Deleters == {"timer", "sweep"}

Thread(at) == [pc |-> at, dirs |-> <<>>, listing |-> {}, found |-> {}, zip |-> {},
               todo |-> {}]

frame_files == <<frame_server, tasks, units>>

\* download_session(session_id), lines 258-290, statement by statement: the test of line
\* 263, os.walk (whose scandir errors are ignored), zf.write of each file listed
download_thread ==
    LET th == threads["download"]
        reply(code, body) ==
            /\ http_response' = [request |-> session_id, code |-> code, body |-> body]
            /\ threads' = [threads EXCEPT !["download"].pc = "done"]
    IN  /\ IF th.pc = "download:263"
           THEN IF ~session_exists(session_id)
                THEN reply(404, "Session not found")
                ELSE /\ threads' = [threads EXCEPT !["download"].pc = "download:271",
                                                   !["download"].found = Under(session_id)]
                     /\ UNCHANGED http_response
           ELSE IF th.pc = "download:271"
           THEN /\ threads' = [threads EXCEPT
                                 !["download"].pc = "download:272",
                                 !["download"].dirs = IF session_exists(session_id)
                                                      THEN Subdirs ELSE <<>>]
                /\ UNCHANGED http_response
           ELSE /\ th.pc = "download:272"
                /\ IF th.listing # {}
                   THEN \E f \in th.listing :
                          IF f \in files
                          THEN /\ threads' = [threads EXCEPT
                                                !["download"].zip = @ \cup {f},
                                                !["download"].listing = @ \ {f}]
                               /\ UNCHANGED http_response
                          ELSE reply(500, "FileNotFoundError")
                   ELSE IF th.dirs # <<>>
                   THEN /\ threads' = [threads EXCEPT
                                         !["download"].listing =
                                             InDir(session_id, Head(th.dirs)),
                                         !["download"].dirs = Tail(th.dirs)]
                        /\ UNCHANGED http_response
                   ELSE reply(200, th.zip)
        /\ UNCHANGED <<frame_files, now, session_dirs, timers, files>>

\* cleanup_session_files(session_id), lines 56-61, statement by statement, in thread t:
\* the test of line 60, then shutil.rmtree: lstat of the path, the removal of what it
\* lists (a file already gone is passed over), rmdir of the path
deleter_step(t, return) ==
    LET th == threads[t]
    IN  IF th.pc = "cleanup_session_files:60"
        THEN /\ threads' = [threads EXCEPT ![t].pc = IF session_exists(session_id)
                                                     THEN "rmtree:lstat" ELSE return]
             /\ UNCHANGED <<session_dirs, files>>
        ELSE IF th.pc = "rmtree:lstat"
        THEN /\ threads' = IF session_exists(session_id)
                           THEN [threads EXCEPT ![t].pc = "rmtree:unlink",
                                                ![t].todo = Under(session_id)]
                           ELSE [threads EXCEPT ![t].pc = "raised"]
             /\ UNCHANGED <<session_dirs, files>>
        ELSE /\ th.pc = "rmtree:unlink"
             /\ IF th.todo # {}
                THEN \E f \in th.todo :
                        /\ files' = files \ {f}
                        /\ threads' = [threads EXCEPT ![t].todo = @ \ {f}]
                        /\ UNCHANGED session_dirs
                ELSE IF session_exists(session_id)
                THEN /\ session_dirs' = [session_dirs EXCEPT
                                           ![session_id] = [exists |-> FALSE, mtime |-> now]]
                     /\ threads' = [threads EXCEPT ![t].pc = return]
                     /\ UNCHANGED files
                ELSE /\ threads' = [threads EXCEPT ![t].pc = "raised"]
                     /\ UNCHANGED <<session_dirs, files>>

\* the Timer thread of the run: it calls cleanup_session_files when the delay is over
timer_thread ==
    /\ IF threads["timer"].pc = "idle"
       THEN \E i \in DOMAIN timers :
               /\ ~timers[i].fired
               /\ now >= timers[i].due
               /\ timers' = [timers EXCEPT ![i].fired = TRUE]
               /\ threads' = [threads EXCEPT !["timer"].pc = "cleanup_session_files:60"]
               /\ UNCHANGED <<session_dirs, files>>
       ELSE /\ deleter_step("timer", "done")
            /\ UNCHANGED timers
    /\ UNCHANGED <<frame_files, now, http_response>>

\* cleanup_old_sessions(), lines 292-303, statement by statement: iterdir, is_dir, stat,
\* cleanup_session_files, sleep; an exception ends the while loop and the thread
sweep_thread ==
    LET th == threads["sweep"]
        goto(at) == threads' = [threads EXCEPT !["sweep"].pc = at]
    IN  /\ IF th.pc = "sweep:297"
           THEN /\ goto(IF session_exists(session_id) THEN "sweep:298" ELSE "sweep:303")
                /\ UNCHANGED <<now, session_dirs, files>>
           ELSE IF th.pc = "sweep:298"
           THEN /\ goto(IF session_exists(session_id) THEN "sweep:300" ELSE "sweep:303")
                /\ UNCHANGED <<now, session_dirs, files>>
           ELSE IF th.pc = "sweep:300"
           THEN /\ goto(IF ~session_exists(session_id) THEN "raised"
                        ELSE IF now - session_dirs[session_id].mtime > max_age
                             THEN "cleanup_session_files:60"
                             ELSE "sweep:303")
                /\ UNCHANGED <<now, session_dirs, files>>
           ELSE IF th.pc = "sweep:303"
           THEN /\ now < MaxSleeps * max_age
                /\ now' = now + max_age
                /\ goto("sweep:297")
                /\ UNCHANGED <<session_dirs, files>>
           ELSE /\ deleter_step("sweep", "sweep:303")
                /\ UNCHANGED now
        /\ UNCHANGED <<frame_files, timers, http_response>>

\* a finished run: its directory holds its artifacts and its Timer is started; the
\* sweep thread of the server is at the top of its loop and a download is requested
InitFiles ==
    /\ pc = "server"
    /\ stage = "init"
    /\ args = CHOOSE r \in Requests : TRUE
    /\ task_status = TaskStatus
    /\ current_progress = Q(0)
    /\ exc = None
    /\ calls = <<>>
    /\ written = NoFiles
    /\ loc = NoFrame
    /\ dev_user_ids = <<>>
    /\ accounts = <<>>
    /\ parts = <<>>
    /\ stages = {}
    /\ ld = NoFrame
    /\ cleanup_status = NoCleanup
    /\ base_progress = Q(0)
    /\ now = 0
    /\ tasks = {session_id}
    /\ session_dirs = [id \in {session_id} |-> [exists |-> TRUE, mtime |-> 0]]
    /\ timers = <<Timer(session_id)>>
    /\ http_response = NoReply
    /\ units = [id \in {} |-> NoFrame]
    /\ files = SessionContents
    /\ threads = [t \in {"download", "timer", "sweep"} |->
                    Thread(IF t = "download" THEN "download:263"
                           ELSE IF t = "timer" THEN "idle" ELSE "sweep:297")]

NextFiles == download_thread \/ timer_thread \/ sweep_thread

SpecFiles == InitFiles /\ [][NextFiles]_vars

\* C28: however a download interleaves with a deletion of the same directory (the
\* hourly sweep or the run's Timer), and the two deleters with each other, the download
\* ends with 404 or with a bundle of everything the directory held when the handler
\* found it, never with another code or a bundle that lacks an artifact; and no deleter
\* ends by an exception.
C28_DownloadAndDeletersSafe ==
    /\ threads["download"].pc = "done" =>
          \/ http_response.code = 404
          \/ /\ http_response.code = 200
             /\ http_response.body = threads["download"].found
    /\ \A t \in Deleters : threads[t].pc # "raised"

\* the separate failures of C28
C28_NoOtherError == threads["download"].pc = "done" => http_response.code \in {200, 404}
C28_BundleComplete ==
    (threads["download"].pc = "done" /\ http_response.code = 200) =>
        http_response.body = threads["download"].found
C28_TimerNeverFails == threads["timer"].pc # "raised"
C28_SweepNeverStops == threads["sweep"].pc # "raised"

----------------------------------------------------------------------------
(* Claims about the order of create_trails' calls *)

\* the nodes of a hierarchy, every node followed at once by its descendants
DepthFirst(trails_json) ==
    LET RECURSIVE Cat(_, _)
        Cat(f, n) == IF n = 0 THEN <<>> ELSE Cat(f, n - 1) \o f[n]
        SubNodes(ft) == IF IsList(ft)
                        THEN [s \in DOMAIN ft.subs |->
                                [level |-> "subfeatures", name |-> ft.subs[s]]]
                        ELSE <<>>
        FeatureNodes(ft) == <<[level |-> "features", name |-> ft.name]>> \o SubNodes(ft)
        CapNodes(cap) == <<[level |-> "capabilities", name |-> cap.name]>>
                           \o Cat([k \in DOMAIN cap.features |-> FeatureNodes(cap.features[k])],
                                  Len(cap.features))
    IN  Cat([k \in DOMAIN trails_json |-> CapNodes(trails_json[k])], Len(trails_json))

\* the node just above node i: the last node of the level above that precedes it
Above(nodes, i) ==
    LET up == IF nodes[i].level = "features" THEN "capabilities" ELSE "features"
    IN  CHOOSE j \in 1..(i - 1) :
            /\ nodes[j].level = up
            /\ \A k \in (j + 1)..(i - 1) : nodes[k].level # up

IssuedCreates == SelectSeq(calls, LAMBDA c : c.ep = "parts.create")

\* C29: create_trails issues its create calls depth-first from the top: the call of a
\* feature comes after its capability's call has returned an id and carries that id, the
\* call of a subfeature comes after its feature's call has returned an id and carries that
\* id, no call is issued before every earlier one has returned, and every descendant of
\* a capability is created before the next capability.
C29_DepthFirstTopDown ==
    LET nodes == DepthFirst(loc.trails_json)
        returned == loc.created_items
    IN  /\ Len(IssuedCreates) <= Len(nodes)
        /\ Len(returned) \in {Len(IssuedCreates), Len(IssuedCreates) - 1}
        /\ \A i \in DOMAIN IssuedCreates :
              /\ IssuedCreates[i].payload.name = nodes[i].name
              /\ IssuedCreates[i].payload.type =
                     IF nodes[i].level = "capabilities" THEN "capability" ELSE "feature"
              /\ IF nodes[i].level = "capabilities"
                 THEN IssuedCreates[i].payload.parent_part = "PROD-1"
                 ELSE /\ returned[Above(nodes, i)].part.id # None
                      /\ IssuedCreates[i].payload.parent_part = returned[Above(nodes, i)].part.id
        /\ \A i \in DOMAIN returned : returned[i].level = nodes[i].level
        /\ pc = "trails:630" => Len(IssuedCreates) = Len(nodes)

C29_Witness ==
    /\ pc = "trails:630"
    /\ Len(loc.trails_json) = 2
    /\ [i \in DOMAIN IssuedCreates |-> IssuedCreates[i].payload.name]
          = <<"A", "F1", "S1", "F2", "B", "F3", "S2">>
    /\ IssuedCreates[7].payload.parent_part = loc.created_items[6].part.id
    /\ IssuedCreates[6].payload.parent_part = loc.created_items[5].part.id

----------------------------------------------------------------------------
(* Claims about the progress slices of clean_org *)

\* positions of run_cleanup outside the try block of clean_org
OutsideCleanOrg == {"cleanup", "cleanup:199", "cleanup:200", "clean:returned", "cleanup:210",
                    "cleanup:211", "cleanup:raised", "cleanup:216", "cleanup:finally",
                    "cleanup:end"}

InStep(k) == pc \notin OutsideCleanOrg /\ loc.current_step = k

SliceStart(k) == Q(delete_step_weight * (k - 1))
SliceEnd(k) == Q(delete_step_weight * k)

\* C30: step k of clean_org (k = 1..5) reports only values in [20(k-1), 20k], whatever
\* the number of objects, and a step that completes has reported 20k last; a step that
\* finds no object to delete reports 20k at once, raises nothing, and the next step runs.
C30_StepWithinItsFifth ==
    /\ [](\A k \in 1..cleanup_steps :
            InStep(k) => /\ Leq(SliceStart(k), task_status.progress)
                         /\ Leq(task_status.progress, SliceEnd(k))
                         /\ pc \in {"clean:1187", "clean:1164", "clean:1306"} =>
                                task_status.progress = SliceEnd(k))
    /\ [][(pc = "clean:1170" /\ pc' = "clean:1183") =>
              /\ loc'.objects = <<>>
              /\ task_status'.progress = SliceStart(loc.current_step)]_vars
    /\ [][pc = "clean:1183" =>
              /\ task_status'.progress = SliceEnd(loc.current_step)
              /\ pc' = "clean:1187"
              /\ exc' = None]_vars
    /\ [][pc = "clean:1187" =>
              pc' = IF loc.current_step < cleanup_steps THEN "clean:1164"
                    ELSE "clean:1306"]_vars

\* step 1 found nothing to delete and step 2 has deleted the first of two objects
C30_Witness ==
    /\ InStep(2)
    /\ pc = "delete:92"
    /\ loc.i = 1
    /\ Len(loc.objects) = 2
    /\ task_status.progress = Q(30)
    /\ cleanup_status.parts.total = 0

----------------------------------------------------------------------------
(* Claims about the keys of the tasks registry *)

PostReply == http_response'.request \in {"generate", "cleanup"} /\ http_response'.code = 200
PollReply == http_response' # http_response /\ http_response'.request \notin {"generate", "cleanup"}

\* the ids a POST handler has issued: those a background unit was started for
Issued == DOMAIN units

\* C31: a session id returned by POST generate or POST cleanup is a key of the registry
\* when the reply is sent, and a poll neither inserts nor removes a key: a poll for an
\* issued id never answers 'Invalid session ID', a poll for an id never issued answers
\* 404 and leaves the registry as it was.
C31_RegisteredBeforeReply ==
    [][/\ (PostReply /\ http_response' # http_response) => http_response'.body \in tasks'
       /\ PollReply =>
             /\ tasks' = tasks
             /\ IF http_response'.request \in Issued
                THEN http_response'.code = 200
                ELSE /\ http_response'.code = 404
                     /\ http_response'.body = "Invalid session ID"]_vars

\* the run "a" is registered and polled, and a poll for "other" was answered last
C31_Witness ==
    /\ "a" \in tasks
    /\ "a" \in Issued
    /\ "other" \notin tasks
    /\ http_response = [request |-> "other", code |-> 404, body |-> "Invalid session ID"]

----------------------------------------------------------------------------
(* Claims about the payloads of create_tickets *)

TicketLoopPcs == {At("tickets", l) : l \in {"690", "708", "721", "743"}}

TicketCreates == {calls[k].payload : k \in {j \in DOMAIN calls : calls[j].ep = "works.create"}}

\* the parts recorded under a name, and whether the vocabulary holds a stage name
Recorded(name) == {parts[k] : k \in {j \in DOMAIN parts : parts[j].name = name}}

\* C32: every ticket create payload carries as applies_to_part the id recorded for the
\* part name the ticket was generated for, as owner that part's owner and as stage the
\* id the stage vocabulary gives for the generated stage name; for an item whose part
\* name or stage name is missing from the maps no create call is issued and the item is
\* recorded as failed.
C32_TicketPayloadResolved ==
    pc \in TicketLoopPcs =>
       /\ \A c \in TicketCreates :
             \E k \in 1..loc.idx : loc.items[k].title = c.title
       /\ \A k \in 1..loc.idx :
             LET item == loc.items[k]
                 sent == {c \in TicketCreates : c.title = item.title}
             IN  IF Recorded(item.applies_to_part) = {} \/ item.stage \notin stages
                 THEN /\ sent = {}
                      /\ \E f \in DOMAIN loc.failed :
                            /\ loc.failed[f].title = item.title
                            /\ loc.failed[f].payload = item
                 ELSE \A c \in sent :
                         /\ \E p \in Recorded(item.applies_to_part) :
                               /\ c.applies_to_part = p.id
                               /\ c.owned_by = p.owned_by
                         /\ c.stage = "stage/" \o item.stage
                         /\ c.type = "tickets"

\* one ticket was sent for the second part and one with an unknown stage was set aside
C32_Witness ==
    /\ pc = At("tickets", "721")
    /\ Len(parts) >= 2
    /\ \E c \in TicketCreates : c.applies_to_part = parts[2].id
    /\ \E f \in DOMAIN loc.failed : loc.failed[f].error = "KeyError: stage"

----------------------------------------------------------------------------
(* Claims about the name-to-id map of create_trails *)

\* C33: part names are unique within a run: create_trails never records two created
\* parts under one name, so the map it returns has exactly one entry per part it created
\* and the entry under a created part's name holds that part's own id.
C33_OneEntryPerCreatedPart ==
    pc = "trails:630" =>
       /\ Len(loc.parts) = Len(loc.created_items)
       /\ \A j \in DOMAIN loc.created_items :
             LET part == loc.created_items[j].part
             IN  /\ HasPart(loc.parts, part.name)
                 /\ PartNamed(loc.parts, part.name).id = part.id

----------------------------------------------------------------------------
(* Claims about the retry loop of create_trails *)

\* C34: whatever the generator replies, an empty mapping included, the retry loop of
\* create_trails ends after a bounded number of completion calls: every call either
\* yields the hierarchy to create or counts as one of at most 3 failed attempts.
C34_RetryLoopBounded ==
    stage = "trails" =>
       /\ Cardinality(GeneratorCalls) <= GptAttempts
       /\ pc = "trails:488" => Cardinality(GeneratorCalls) = loc.gpt_retries

----------------------------------------------------------------------------
(* Claims about a finished run as a poller sees it *)

\* C35: in every reachable TaskStatus, complete implies that error is not set: no
\* sequence of pipeline steps and polls, polls later than 5 minutes after the last
\* update included, leaves a run reported both as complete and as failed.
C35_CompleteImpliesNoError ==
    task_status.complete => task_status.error = None

\* C36: in every state a poller can observe, of a provisioning run and of a cleanup run,
\* complete implies progress = 100; once complete is set it is never unset and progress
\* never changes again.
C36_CompleteIsFinal ==
    /\ [](response_data(task_status).complete =>
             response_data(task_status).progress = Q(100))
    /\ [][task_status.complete =>
             /\ task_status'.complete
             /\ task_status'.progress = task_status.progress]_vars

\* a completed run polled more than poll_timeout after its last update
C36_Witness ==
    /\ task_status.complete
    /\ task_status.progress = Q(100)
    /\ task_status.status = "Error: Operation timed out"
    /\ pc \in {"thread:end", "cleanup:end"}

----------------------------------------------------------------------------
(* Claims about the session directory during the run *)

\* the background unit has made its directory and has not reached the end of its function
Executing == pc \notin {"cleanup", "cleanup:end"}

\* C37: no deletion of a session directory, by the hourly sweep or by a deletion timer,
\* happens while the session's background unit is executing, so every artifact written
\* earlier in the run is in the directory when the run reaches completion or error.
C37_NoDeletionDuringRun ==
    [][Executing =>
          /\ session_exists(session_id) => session_exists(session_id)'
          /\ DOMAIN written \subseteq DOMAIN written']_vars

----------------------------------------------------------------------------
(* Claims about the count hints of a request *)

\* C38: for every non-negative ticket or issue count hint a request may carry, the
\* default 0 included, the number of items per part is drawn from a non-empty range
\* (the minimum of 2 does not exceed the maximum in use), and create_tickets and
\* create_issues do not abort the pipeline because of the hint.
C38_HintRangeNonEmpty ==
    \A kind \in ItemKinds :
        /\ (pc = At(kind, "gpt:142") /\ loc.part < Len(parts)) =>
               min_per_part <= max_per_part(kind)
        /\ pc = At(kind, "except") => exc # "ValueError"

----------------------------------------------------------------------------
(* Claims about requests without a valid credential *)

\* the body has no devorgPat, or one that does not begin with "ey"
BadCredential(body) ==
    \/ ~body.has_pat
    \/ Len(body.pat) < 2
    \/ body.pat[1] # "e"
    \/ body.pat[2] # "y"

\* C39: a POST generate or POST cleanup whose body lacks the credential, or whose
\* credential does not start with "ey", is answered 400 and has no effect: no session id
\* is issued, no registry entry is inserted, no background unit is started and no
\* session directory is made.
C39_RejectedWithoutEffect ==
    [][\A kind \in {"generate", "cleanup"}, body \in Bodies :
          (BadCredential(body) /\ post_with(RunIds, kind, body)) =>
              /\ http_response'.code = 400
              /\ http_response'.body \notin RunIds
              /\ UNCHANGED <<tasks, units, session_dirs, timers, files>>]_vars

\* a request with the credential "pat" was rejected while the run "a" was in flight
C39_Witness ==
    /\ http_response = [request |-> "cleanup", code |-> 400,
                        body |-> "Invalid PAT format. DevRev PAT should start with \"ey\""]
    /\ tasks = {"a"}
    /\ InFlight("a")

====
